---- MODULE Spec2Model ----
(***************************************************************************)
(* Model of the website scraper's fetch orchestration (OptimizedScraper,   *)
(* UltimateScraper), the module-level proxy rotation of scraper.py, the    *)
(* browser-manager pool and the EmailVerificationTracker.                  *)
(*                                                                         *)
(* Each subsystem has its own specification over the shared variables:     *)
(*   SpecTracker       EmailVerificationTracker mutators and readers       *)
(*   SpecProxy         load_proxies / get_next_proxy / reset_proxy_usage   *)
(*   SpecProxyThreads  get_next_proxy run by concurrent worker threads     *)
(*   SpecPool          get_browser_manager / return_browser_manager        *)
(*   SpecScrape        scrape_all / scrape_url of both scraper variants    *)
(***************************************************************************)
EXTENDS Integers, Sequences, FiniteSets, TLC

VARIABLES
    tracker,              \* the EmailVerificationTracker object
    trackerCalls,         \* mutator calls made on it so far
    pageWrites,           \* per page name, the result its latest registration passed in
    _proxies_cache,       \* scraper.py module global
    _proxy_index,         \* scraper.py module global
    _proxy_usage_count,   \* scraper.py module global
    proxies,              \* the list the latest load_proxies call returned to its caller
    proxyTrace,           \* get_next_proxy / load_proxies events since the last reset_proxy_usage
    threads,              \* worker threads inside get_next_proxy; the executor threads of a scraper
    browser_managers,     \* OptimizedScraper.browser_managers, the idle list
    held,                 \* session checked out by each caller (0: none)
    closed,               \* sessions on which close_browser has run
    scraper               \* a scraper object with its tasks (SpecScrape)

vars == << tracker, trackerCalls, pageWrites, _proxies_cache, _proxy_index, _proxy_usage_count,
           proxies, proxyTrace, threads, browser_managers, held, closed, scraper >>

trackerVars == << tracker, trackerCalls, pageWrites >>
proxyVars   == << _proxies_cache, _proxy_index, _proxy_usage_count, proxies, proxyTrace >>
poolVars    == << browser_managers, held, closed >>

None == "None"

(***************************************************************************)
(* Generic helpers: Python dict and str operations.                        *)
(***************************************************************************)
EmptyDict == [k \in {} |-> None]

DictPut(d, k, v) == [x \in (DOMAIN d) \cup {k} |-> IF x = k THEN v ELSE d[x]]

DictGet(d, k, default) == IF k \in DOMAIN d THEN d[k] ELSE default

Range(s) == { s[i] : i \in DOMAIN s }

\* str.lower on one character: A-Z and the capitals of U+00C0..U+00DE
\* (the multiplication sign U+00D7 is no letter); no other character a
\* string of this module can hold has a lower-case form of its own
LowerChar(c) ==
    CASE c = "A" -> "a" [] c = "B" -> "b" [] c = "C" -> "c" [] c = "D" -> "d"
      [] c = "E" -> "e" [] c = "F" -> "f" [] c = "G" -> "g" [] c = "H" -> "h"
      [] c = "I" -> "i" [] c = "J" -> "j" [] c = "K" -> "k" [] c = "L" -> "l"
      [] c = "M" -> "m" [] c = "N" -> "n" [] c = "O" -> "o" [] c = "P" -> "p"
      [] c = "Q" -> "q" [] c = "R" -> "r" [] c = "S" -> "s" [] c = "T" -> "t"
      [] c = "U" -> "u" [] c = "V" -> "v" [] c = "W" -> "w" [] c = "X" -> "x"
      [] c = "Y" -> "y" [] c = "Z" -> "z" [] c = "À" -> "à" [] c = "Á" -> "á"
      [] c = "Â" -> "â" [] c = "Ã" -> "ã" [] c = "Ä" -> "ä" [] c = "Å" -> "å"
      [] c = "Æ" -> "æ" [] c = "Ç" -> "ç" [] c = "È" -> "è" [] c = "É" -> "é"
      [] c = "Ê" -> "ê" [] c = "Ë" -> "ë" [] c = "Ì" -> "ì" [] c = "Í" -> "í"
      [] c = "Î" -> "î" [] c = "Ï" -> "ï" [] c = "Ð" -> "ð" [] c = "Ñ" -> "ñ"
      [] c = "Ò" -> "ò" [] c = "Ó" -> "ó" [] c = "Ô" -> "ô" [] c = "Õ" -> "õ"
      [] c = "Ö" -> "ö" [] c = "Ø" -> "ø" [] c = "Ù" -> "ù" [] c = "Ú" -> "ú"
      [] c = "Û" -> "û" [] c = "Ü" -> "ü" [] c = "Ý" -> "ý" [] c = "Þ" -> "þ"
      [] OTHER -> c

RECURSIVE StrLower(_)
StrLower(s) ==
    IF s = "" THEN ""
    ELSE LowerChar(SubSeq(s, 1, 1)) \o StrLower(SubSeq(s, 2, Len(s)))

\* the whitespace characters str.strip, str.lstrip and str.rstrip remove:
\* space, \t, \n, \r, \f, the vertical tab 0x0b, the separators 0x1c..0x1f,
\* NEL 0x85 and the no-break space 0xa0, written as the characters
\* themselves where there is no escape for them.  (The Unicode spaces above
\* 0xff, which str.strip removes too, cannot stand in a string of this
\* module, so no input holds one.)
Whitespace ==
    { " ", "\t", "\n", "\r", "\f", "", "", "", "", "", "", " " }

RECURSIVE StrLStrip(_)
StrLStrip(s) ==
    IF s # "" /\ SubSeq(s, 1, 1) \in Whitespace
    THEN StrLStrip(SubSeq(s, 2, Len(s))) ELSE s

RECURSIVE StrRStrip(_)
StrRStrip(s) ==
    IF s # "" /\ SubSeq(s, Len(s), Len(s)) \in Whitespace
    THEN StrRStrip(SubSeq(s, 1, Len(s) - 1)) ELSE s

StrStrip(s) == StrRStrip(StrLStrip(s))

\* Python's `sub in s`
StrContains(s, sub) ==
    \E i \in 1..(Len(s) - Len(sub) + 1) : SubSeq(s, i, i + Len(sub) - 1) = sub

StrStartsWith(s, prefix) ==
    Len(s) >= Len(prefix) /\ SubSeq(s, 1, Len(prefix)) = prefix

\* Python's s.count(c) for a one-character c
StrCount(s, c) == Cardinality({ i \in 1..Len(s) : SubSeq(s, i, i) = c })

(***************************************************************************)
(* EmailVerificationTracker (email_verification.py)                        *)
(***************************************************************************)
REQUIRED_PAGES ==
    << "homepage", "contact", "about", "support", "help",
       "legal", "team", "privacy", "terms" >>

REQUIRED_DATA_SOURCES ==
    << "visible_text", "dom_text", "inline_javascript", "meta_tags",
       "schema_org_jsonld", "mailto_links", "contact_forms", "social_links" >>

\* CheckStatus values
COMPLETED == "completed"
FAILED    == "failed"

\* FailureReason values used by the callers
TIMEOUT     == "timeout"
UNREACHABLE == "unreachable"

StatusComplete   == "COMPLETED: All checks completed successfully"
StatusIncomplete == "INCOMPLETE: Some checks were not completed"

\* EmailVerificationTracker.__init__
NewTracker ==
    [ homepage_scanned               |-> FALSE,
      pages_scanned                  |-> EmptyDict,
      internal_links_depth_2_checked |-> FALSE,
      internal_links_found           |-> << >>,
      data_sources_checked           |-> EmptyDict,
      emails_found                   |-> {},
      emails_cleaned                 |-> FALSE,
      no_email_reason                |-> None,
      failures                       |-> << >>,
      slow_operations                |-> << >>,
      repeated_failures              |-> EmptyDict,
      completed                      |-> FALSE,
      completion_time                |-> None ]

ReasonValue(reason) == IF reason = None THEN "unknown" ELSE reason

_track_failure(t, operation, reason) ==
    LET key == operation \o "_" \o ReasonValue(reason) IN
    [ t EXCEPT
        !.failures = Append(@, [operation |-> operation, reason |-> ReasonValue(reason)]),
        !.repeated_failures = DictPut(@, key, DictGet(@, key, 0) + 1) ]

PageScanResult(page_name, url, success, failure_reason, emails_found, scan_time) ==
    [ page_name      |-> page_name,
      url            |-> url,
      status         |-> IF success THEN COMPLETED ELSE FAILED,
      failure_reason |-> failure_reason,
      emails_found   |-> emails_found,
      scan_time      |-> scan_time ]

DataSourceCheck(source_name, success, emails_found, failure_reason) ==
    [ source_name    |-> source_name,
      status         |-> IF success THEN COMPLETED ELSE FAILED,
      emails_found   |-> emails_found,
      failure_reason |-> failure_reason ]

mark_homepage_scanned(t, success, failure_reason, scan_time) ==
    LET t1 == [ t EXCEPT
                  !.homepage_scanned = success,
                  !.pages_scanned = DictPut(@, "homepage",
                       PageScanResult("homepage", "", success, failure_reason, 0, scan_time)) ]
    IN IF ~success THEN _track_failure(t1, "homepage", failure_reason) ELSE t1

SLOW_SCAN_SECONDS == 10

mark_page_scanned_keep_first(t, page_name, url, success, failure_reason, emails_found, scan_time) ==
    LET t1 == IF page_name \in DOMAIN t.pages_scanned THEN t
              ELSE [ t EXCEPT !.pages_scanned = DictPut(@, page_name,
                       PageScanResult(page_name, url, success, failure_reason, emails_found, scan_time)) ]
        t2 == IF ~success THEN _track_failure(t1, page_name, failure_reason) ELSE t1
    IN IF scan_time > SLOW_SCAN_SECONDS
       THEN [ t2 EXCEPT !.slow_operations =
                Append(@, [operation |-> "scan_" \o page_name, time |-> scan_time, url |-> url]) ]
       ELSE t2

mark_page_scanned_required_only(t, page_name, url, success, failure_reason, emails_found, scan_time) ==
    IF page_name \notin Range(REQUIRED_PAGES) THEN t
    ELSE
    LET t1 == [ t EXCEPT !.pages_scanned = DictPut(@, page_name,
                   PageScanResult(page_name, url, success, failure_reason, emails_found, scan_time)) ]
        t2 == IF ~success THEN _track_failure(t1, page_name, failure_reason) ELSE t1
    IN IF scan_time > SLOW_SCAN_SECONDS
       THEN [ t2 EXCEPT !.slow_operations =
                Append(@, [operation |-> "scan_" \o page_name, time |-> scan_time, url |-> url]) ]
       ELSE t2

mark_page_scanned(t, page_name, url, success, failure_reason, emails_found, scan_time) ==
    LET t1 == [ t EXCEPT !.pages_scanned = DictPut(@, page_name,
                   PageScanResult(page_name, url, success, failure_reason, emails_found, scan_time)) ]
        t2 == IF ~success THEN _track_failure(t1, page_name, failure_reason) ELSE t1
    IN IF scan_time > SLOW_SCAN_SECONDS
       THEN [ t2 EXCEPT !.slow_operations =
                Append(@, [operation |-> "scan_" \o page_name, time |-> scan_time, url |-> url]) ]
       ELSE t2

mark_internal_links_checked(t, links_found) ==
    [ t EXCEPT !.internal_links_depth_2_checked = TRUE,
               !.internal_links_found = links_found ]

mark_data_source_checked_reset(t, source_name, success, emails_found, failure_reason) ==
    LET t1 == [ t EXCEPT !.data_sources_checked = DictPut(EmptyDict, source_name,
                   DataSourceCheck(source_name, success, emails_found, failure_reason)) ]
    IN IF ~success
       THEN _track_failure(t1, "data_source_" \o source_name, failure_reason)
       ELSE t1

mark_data_source_checked(t, source_name, success, emails_found, failure_reason) ==
    LET t1 == [ t EXCEPT !.data_sources_checked = DictPut(@, source_name,
                   DataSourceCheck(source_name, success, emails_found, failure_reason)) ]
    IN IF ~success
       THEN _track_failure(t1, "data_source_" \o source_name, failure_reason)
       ELSE t1

add_email(t, email) ==
    [ t EXCEPT !.emails_found = @ \cup { StrStrip(StrLower(email)) } ]

mark_emails_cleaned(t) == [ t EXCEPT !.emails_cleaned = TRUE ]

set_no_email_reason(t, reason) == [ t EXCEPT !.no_email_reason = reason ]

\* verify_website_scan_complete()['target_pages_checked']
target_pages_checked(t) ==
    [ page \in Range(REQUIRED_PAGES) |->
        IF page = "homepage" THEN t.homepage_scanned
        ELSE page \in DOMAIN t.pages_scanned ]

verify_website_scan_complete(t) ==
    [ homepage_scanned       |-> t.homepage_scanned,
      internal_links_checked |-> t.internal_links_depth_2_checked,
      target_pages_checked   |-> target_pages_checked(t),
      all_pages_complete     |-> \A page \in Range(REQUIRED_PAGES) : target_pages_checked(t)[page] ]

verify_data_sources_complete_any(t) ==
    LET checks == [ source \in Range(REQUIRED_DATA_SOURCES) |->
                      source \in DOMAIN t.data_sources_checked ]
    IN [ checks               |-> checks,
         all_sources_complete |-> \E source \in Range(REQUIRED_DATA_SOURCES) : checks[source] ]

verify_data_sources_complete(t) ==
    LET checks == [ source \in Range(REQUIRED_DATA_SOURCES) |->
                      source \in DOMAIN t.data_sources_checked ]
    IN [ checks               |-> checks,
         all_sources_complete |-> \A source \in Range(REQUIRED_DATA_SOURCES) : checks[source] ]

verify_results_produced(t) ==
    [ emails_found             |-> Cardinality(t.emails_found) > 0,
      emails_cleaned           |-> IF Cardinality(t.emails_found) > 0 THEN t.emails_cleaned ELSE TRUE,
      no_email_reason_provided |-> IF Cardinality(t.emails_found) = 0
                                   THEN t.no_email_reason # None ELSE TRUE,
      no_steps_skipped         |-> Len(t.failures) = 0 ]

get_completion_status_maps_only(t) ==
    LET website_scan == verify_website_scan_complete(t)
        data_sources == verify_data_sources_complete(t)
    IN IF /\ website_scan.all_pages_complete
          /\ data_sources.all_sources_complete
       THEN StatusComplete
       ELSE StatusIncomplete

get_completion_status(t) ==
    LET website_scan == verify_website_scan_complete(t)
        data_sources == verify_data_sources_complete(t)
        results      == verify_results_produced(t)
    IN IF /\ website_scan.all_pages_complete
          /\ data_sources.all_sources_complete
          /\ \A k \in DOMAIN results : results[k]
       THEN StatusComplete
       ELSE StatusIncomplete

\* sep.join(seq)
RECURSIVE Join(_, _)
Join(seq, sep) ==
    IF seq = << >> THEN ""
    ELSE IF Len(seq) = 1 THEN seq[1]
    ELSE seq[1] \o sep \o Join(Tail(seq), sep)

get_incomplete_steps(t) ==
    LET website_scan == verify_website_scan_complete(t)
        data_sources == verify_data_sources_complete(t)
        results      == verify_results_produced(t)
        PageMissing(page)     == ~website_scan.target_pages_checked[page]
        pages                 == SelectSeq(REQUIRED_PAGES, PageMissing)
        SourceMissing(source) == ~data_sources.checks[source]
        sources               == SelectSeq(REQUIRED_DATA_SOURCES, SourceMissing)
    IN (IF ~website_scan.homepage_scanned THEN << "Homepage not scanned" >> ELSE << >>)
       \o (IF ~website_scan.internal_links_checked
           THEN << "Internal links (depth 2) not checked" >> ELSE << >>)
       \o [i \in 1..Len(pages) |-> "Page '" \o pages[i] \o "' not scanned"]
       \o [i \in 1..Len(sources) |-> "Data source '" \o sources[i] \o "' not checked"]
       \o (IF ~results.emails_cleaned /\ Cardinality(t.emails_found) > 0
           THEN << "Emails found but not cleaned/formatted" >> ELSE << >>)
       \o (IF ~results.no_email_reason_provided /\ Cardinality(t.emails_found) = 0
           THEN << "No emails found but no reason provided" >> ELSE << >>)

\* thresholds of get_diagnostics: a recommendation is made above them
HIGH_FAILURE_COUNT == 5
SLOW_OPERATION_COUNT == 3
REPEATED_FAILURE_COUNT == 2

HighFailureRecommendation == "High failure rate - consider checking network/proxy"

SlowOperationsRecommendation == "Multiple slow operations - consider increasing timeout"

RepeatedFailureRecommendation(key, count) ==
    "Repeated failure: " \o key \o " (" \o ToString(count) \o " times) - needs investigation"

\* the key _track_failure counts a failure event under
FailureKey(failure) == failure.operation \o "_" \o failure.reason

\* the keys of repeated_failures in the order the dict holds them, which is
\* the order of their first failure event
RepeatedFailureKeys(t) ==
    LET keys == [i \in 1..Len(t.failures) |-> FailureKey(t.failures[i])]
        first == { i \in 1..Len(keys) : \A j \in 1..(i - 1) : keys[j] # keys[i] }
        RECURSIVE InOrder(_)
        InOrder(i) ==
            IF i > Len(keys) THEN << >>
            ELSE (IF i \in first /\ keys[i] \in DOMAIN t.repeated_failures
                  THEN << keys[i] >> ELSE << >>) \o InOrder(i + 1)
    IN InOrder(1)

get_diagnostics(t) ==
    LET Repeated(key) == t.repeated_failures[key] > REPEATED_FAILURE_COUNT
        repeated      == SelectSeq(RepeatedFailureKeys(t), Repeated)
        incomplete    == get_incomplete_steps(t)
    IN [ total_pages_scanned        |-> Cardinality(DOMAIN t.pages_scanned),
         total_data_sources_checked |-> Cardinality(DOMAIN t.data_sources_checked),
         total_emails_found         |-> Cardinality(t.emails_found),
         total_failures             |-> Len(t.failures),
         slow_operations            |-> Len(t.slow_operations),
         repeated_failures          |-> t.repeated_failures,
         recommendations            |->
             (IF Len(t.failures) > HIGH_FAILURE_COUNT
              THEN << HighFailureRecommendation >> ELSE << >>)
             \o (IF Len(t.slow_operations) > SLOW_OPERATION_COUNT
                 THEN << SlowOperationsRecommendation >> ELSE << >>)
             \o [i \in 1..Len(repeated) |->
                   RepeatedFailureRecommendation(repeated[i], t.repeated_failures[repeated[i]])]
             \o (IF incomplete # << >>
                 THEN << "Retry incomplete steps: "
                           \o Join(SubSeq(incomplete, 1, IF Len(incomplete) < 3
                                                         THEN Len(incomplete) ELSE 3), ", ") >>
                 ELSE << >>) ]

\* generate_report at clock reading `now`: the tracker afterwards, and the
\* values the lines of the returned report are formatted from
generate_report(t, now) ==
    LET t1 == [ t EXCEPT !.completion_time = now ] IN
    [ tracker |-> t1,
      report  |-> [ status               |-> get_completion_status(t1),
                    emails_found         |-> Cardinality(t1.emails_found),
                    pages_scanned        |-> Cardinality(DOMAIN t1.pages_scanned),
                    data_sources_checked |-> Cardinality(DOMAIN t1.data_sources_checked),
                    failures             |-> Len(t1.failures),
                    incomplete           |-> get_incomplete_steps(t1),
                    recommendations      |-> get_diagnostics(t1).recommendations ] ]

(***************************************************************************)
(* The tracker's callers.  scrape_with_full_verification                   *)
(* (example_with_verification.py) registers the homepage, three data       *)
(* sources, the eight target pages, five more data sources and the         *)
(* internal links, in this order.  ExampleRun is that sequence for a run   *)
(* in which every page loads and no email is found; a job is observed      *)
(* after any prefix of it.                                                 *)
(***************************************************************************)
ExampleScanTime == 2

ExampleRun ==
    << [op |-> "homepage"],
       [op |-> "source", name |-> "visible_text"],
       [op |-> "source", name |-> "dom_text"],
       [op |-> "source", name |-> "mailto_links"],
       [op |-> "page", name |-> "contact"],
       [op |-> "page", name |-> "about"],
       [op |-> "page", name |-> "support"],
       [op |-> "page", name |-> "help"],
       [op |-> "page", name |-> "legal"],
       [op |-> "page", name |-> "team"],
       [op |-> "page", name |-> "privacy"],
       [op |-> "page", name |-> "terms"],
       [op |-> "source", name |-> "inline_javascript"],
       [op |-> "source", name |-> "meta_tags"],
       [op |-> "source", name |-> "schema_org_jsonld"],
       [op |-> "source", name |-> "contact_forms"],
       [op |-> "source", name |-> "social_links"],
       [op |-> "links"] >>

\* extract_emails returns the string "NONE" for a page without an email, and
\* the caller passes `len(emails) if emails else 0`, the length of that
\* string, for visible_text and for each target page; the other data sources
\* are registered with the default emails_found=0.
ExampleStep(t, step) ==
    LET emails == "NONE"
        found  == IF emails # "" THEN Len(emails) ELSE 0
    IN CASE step.op = "homepage" -> mark_homepage_scanned(t, TRUE, None, ExampleScanTime)
         [] step.op = "source"   ->
              mark_data_source_checked(t, step.name, TRUE,
                                       IF step.name = "visible_text" THEN found ELSE 0, None)
         [] step.op = "page"     -> mark_page_scanned(t, step.name, "/" \o step.name, TRUE, None,
                                                      found, ExampleScanTime)
         [] step.op = "links"    ->
              mark_internal_links_checked(t, << "/products", "/services", "/blog" >>)

\* The tracker after the first k steps of the run, step `skip` left out (0: none).
RECURSIVE TrackerAfter(_, _)
TrackerAfter(k, skip) ==
    IF k = 0 THEN NewTracker
    ELSE IF k = skip THEN TrackerAfter(k - 1, skip)
    ELSE ExampleStep(TrackerAfter(k - 1, skip), ExampleRun[k])

\* Observed job states: any prefix of the run, or the whole run less one step.
ObservedTrackers ==
    { TrackerAfter(k, 0) : k \in 0..Len(ExampleRun) }
      \cup { TrackerAfter(Len(ExampleRun), skip) : skip \in 1..Len(ExampleRun) }

\* Bound on the further mutator calls explored from an observed job state.
MaxTrackerCalls == 3

\* Inputs of the explored mutator calls.
PageNames   == { "homepage", "terms", "pricing" }
SourceNames == { "social_links", "rss_feed" }
EmailInputs ==
    { "Info@Shop.io", " info@shop.io ", "\tInfo@Shop.io\n", "Info@Shop.io",
      " info@shop.io" }

PageScanInputs ==
    { [success |-> TRUE,  failure_reason |-> None,    emails_found |-> 1, scan_time |-> 2],
      [success |-> TRUE,  failure_reason |-> None,    emails_found |-> 0, scan_time |-> 12],
      [success |-> FALSE, failure_reason |-> TIMEOUT, emails_found |-> 0, scan_time |-> 12],
      [success |-> FALSE, failure_reason |-> None,    emails_found |-> 0, scan_time |-> 2] }

SourceCheckInputs ==
    { [success |-> TRUE,  emails_found |-> 1, failure_reason |-> None],
      [success |-> FALSE, emails_found |-> 0, failure_reason |-> UNREACHABLE] }

MoreCalls == trackerCalls < MaxTrackerCalls

TrackerFrame == UNCHANGED << proxyVars, threads, poolVars, scraper >>

MarkHomepageScanned ==
    /\ MoreCalls
    /\ \E in \in PageScanInputs :
         /\ tracker' = mark_homepage_scanned(tracker, in.success, in.failure_reason, in.scan_time)
         /\ pageWrites' = DictPut(pageWrites, "homepage",
                PageScanResult("homepage", "", in.success, in.failure_reason, 0, in.scan_time))
    /\ trackerCalls' = trackerCalls + 1
    /\ TrackerFrame

MarkPageScanned ==
    /\ MoreCalls
    /\ \E name \in PageNames, in \in PageScanInputs :
         /\ tracker' = mark_page_scanned(tracker, name, "/" \o name, in.success,
                                         in.failure_reason, in.emails_found, in.scan_time)
         /\ pageWrites' = DictPut(pageWrites, name,
                PageScanResult(name, "/" \o name, in.success, in.failure_reason,
                               in.emails_found, in.scan_time))
    /\ trackerCalls' = trackerCalls + 1
    /\ TrackerFrame

MarkInternalLinksChecked ==
    /\ MoreCalls
    /\ tracker' = mark_internal_links_checked(tracker, << "/products" >>)
    /\ trackerCalls' = trackerCalls + 1
    /\ UNCHANGED pageWrites
    /\ TrackerFrame

MarkDataSourceChecked ==
    /\ MoreCalls
    /\ \E name \in SourceNames, in \in SourceCheckInputs :
         tracker' = mark_data_source_checked(tracker, name, in.success,
                                             in.emails_found, in.failure_reason)
    /\ trackerCalls' = trackerCalls + 1
    /\ UNCHANGED pageWrites
    /\ TrackerFrame

AddEmail ==
    /\ MoreCalls
    /\ \E email \in EmailInputs : tracker' = add_email(tracker, email)
    /\ trackerCalls' = trackerCalls + 1
    /\ UNCHANGED pageWrites
    /\ TrackerFrame

MarkEmailsCleaned ==
    /\ MoreCalls
    /\ tracker' = mark_emails_cleaned(tracker)
    /\ trackerCalls' = trackerCalls + 1
    /\ UNCHANGED pageWrites
    /\ TrackerFrame

SetNoEmailReason ==
    /\ MoreCalls
    /\ tracker' = set_no_email_reason(tracker, "No email addresses found on any page or data source")
    /\ trackerCalls' = trackerCalls + 1
    /\ UNCHANGED pageWrites
    /\ TrackerFrame

(***************************************************************************)
(* Proxy rotation (scraper.py): the module globals _proxies_cache,         *)
(* _proxy_index and _proxy_usage_count and the functions on them.          *)
(***************************************************************************)
_max_uses_per_proxy == 7

IndexError == "IndexError"

\* Bound on the number of endpoints in a proxies.txt file.
MaxProxies == 3

\* Bound on the get_next_proxy calls recorded since the last reset or load,
\* and on the use-count they may reach.
MaxProxyCalls == 9

\* ProxyConfig.server of the i-th line of a file
ProxyServers ==
    << "http://10.0.0.1:8080", "http://10.0.0.2:8080", "http://10.0.0.3:8080",
       "http://10.0.0.4:8080", "http://10.0.0.5:8080", "http://10.0.0.6:8080" >>

ProxyConfig(i) == ProxyServers[i]

ProxyList(n) == [i \in 1..n |-> ProxyConfig(i)]

\* What load_proxies can find: no proxies.txt, or a file with n valid lines.
ProxyFiles ==
    { [exists |-> FALSE, lines |-> << >>] }
      \cup { [exists |-> TRUE, lines |-> ProxyList(n)] : n \in 0..MaxProxies }

\* load_proxies: the list returned and the new cache (unchanged when there is no file)
load_proxies(cache, file) ==
    IF ~file.exists
    THEN [returned |-> << >>, cache |-> cache]
    ELSE [returned |-> file.lines, cache |-> file.lines]

get_next_proxy_late(cache, index, usage_count, force_rotate) ==
    IF cache = << >>
    THEN [result |-> None, index |-> index, usage_count |-> usage_count]
    ELSE LET should_rotate == force_rotate \/ usage_count > _max_uses_per_proxy
             rotates == should_rotate /\ Len(cache) > 1
             index1  == IF rotates THEN (index + 1) % Len(cache) ELSE index
             count1  == IF rotates THEN 0 ELSE usage_count
         IN IF index1 >= Len(cache)
            THEN [result |-> IndexError, index |-> index1, usage_count |-> count1]
            ELSE [result |-> cache[index1 + 1], index |-> index1, usage_count |-> count1 + 1]

get_next_proxy_keep_count(cache, index, usage_count, force_rotate) ==
    IF cache = << >>
    THEN [result |-> None, index |-> index, usage_count |-> usage_count]
    ELSE LET should_rotate == force_rotate \/ usage_count >= _max_uses_per_proxy
             rotates == should_rotate /\ Len(cache) > 1
             index1  == IF rotates THEN (index + 1) % Len(cache) ELSE index
             count1  == usage_count
         IN IF index1 >= Len(cache)
            THEN [result |-> IndexError, index |-> index1, usage_count |-> count1]
            ELSE [result |-> cache[index1 + 1], index |-> index1, usage_count |-> count1 + 1]

\* get_next_proxy: the value returned (or the IndexError raised by the list
\* access) and the globals after the call.  Indices are 0-based as in the code.
get_next_proxy(cache, index, usage_count, force_rotate) ==
    IF cache = << >>
    THEN [result |-> None, index |-> index, usage_count |-> usage_count]
    ELSE LET should_rotate == force_rotate \/ usage_count >= _max_uses_per_proxy
             rotates == should_rotate /\ Len(cache) > 1
             index1  == IF rotates THEN (index + 1) % Len(cache) ELSE index
             count1  == IF rotates THEN 0 ELSE usage_count
         IN IF index1 >= Len(cache)
            THEN [result |-> IndexError, index |-> index1, usage_count |-> count1]
            ELSE [result |-> cache[index1 + 1], index |-> index1, usage_count |-> count1 + 1]

CallEvents(trace) == { i \in DOMAIN trace : trace[i].op = "call" }

ProxyFrame == UNCHANGED << trackerVars, threads, poolVars, scraper >>

LoadProxies ==
    /\ \E file \in ProxyFiles :
         LET r == load_proxies(_proxies_cache, file) IN
           /\ _proxies_cache' = r.cache
           /\ proxies' = r.returned
           /\ proxyTrace' = << [op |-> "load", file |-> file] >>
    /\ UNCHANGED << _proxy_index, _proxy_usage_count >>
    /\ ProxyFrame

ResetProxyUsage ==
    /\ _proxy_usage_count' = 0
    /\ proxyTrace' = << >>
    /\ UNCHANGED << _proxies_cache, _proxy_index, proxies >>
    /\ ProxyFrame

GetNextProxy ==
    /\ Cardinality(CallEvents(proxyTrace)) < MaxProxyCalls
    /\ _proxy_usage_count < MaxProxyCalls
    /\ \E force_rotate \in BOOLEAN :
         LET r == get_next_proxy(_proxies_cache, _proxy_index, _proxy_usage_count, force_rotate) IN
           /\ _proxy_index' = r.index
           /\ _proxy_usage_count' = r.usage_count
           /\ proxyTrace' = Append(proxyTrace,
                [op |-> "call", force_rotate |-> force_rotate, cache |-> _proxies_cache,
                 index_before |-> _proxy_index, result |-> r.result,
                 index |-> r.index, usage_count |-> r.usage_count])
    /\ UNCHANGED << _proxies_cache, proxies >>
    /\ ProxyFrame

\* The globals as they are when scraper.py has just been imported.
InitProxy ==
    /\ _proxies_cache = << >>
    /\ _proxy_index = 0
    /\ _proxy_usage_count = 0
    /\ proxies = << >>
    /\ proxyTrace = << >>
    /\ tracker = NewTracker
    /\ trackerCalls = 0
    /\ pageWrites = tracker.pages_scanned
    /\ threads = << >>
    /\ browser_managers = << >>
    /\ held = << >>
    /\ closed = {}
    /\ scraper = None

NextProxy ==
    \/ LoadProxies
    \/ ResetProxyUsage
    \/ GetNextProxy

SpecProxy == InitProxy /\ [][NextProxy]_vars

\* The endpoints a call may legitimately return
IsEndpoint(x) == x \notin { None, IndexError }

\* C7: on a list of two or more endpoints, when the first _max_uses_per_proxy
\* calls after a reset are non-forced calls that returned endpoints, the next
\* non-forced call returns an endpoint different from the one the previous
\* _max_uses_per_proxy - 1 calls returned, and its use-count restarts from one.
C7_QuotaRotation ==
    LET n == _max_uses_per_proxy IN
    ( /\ Len(proxyTrace) >= n + 1
      /\ \A i \in 1..(n + 1) :
           /\ proxyTrace[i].op = "call"
           /\ ~proxyTrace[i].force_rotate
           /\ Len(proxyTrace[i].cache) >= 2
      /\ \A i \in 1..n : IsEndpoint(proxyTrace[i].result) )
    => /\ IsEndpoint(proxyTrace[n + 1].result)
       /\ \A i \in 2..n : proxyTrace[n + 1].result # proxyTrace[i].result
       /\ proxyTrace[n + 1].usage_count = 1

\* Eight non-forced calls after a reset on a list of two or more endpoints,
\* the first seven served by one endpoint.
C7_Witness ==
    /\ Len(proxyTrace) >= _max_uses_per_proxy + 1
    /\ \A i \in 1..(_max_uses_per_proxy + 1) :
         /\ proxyTrace[i].op = "call"
         /\ ~proxyTrace[i].force_rotate
         /\ Len(proxyTrace[i].cache) >= 2
         /\ IsEndpoint(proxyTrace[i].result)
    /\ \A i \in 1.._max_uses_per_proxy : proxyTrace[i].result = proxyTrace[1].result
    /\ proxyTrace[_max_uses_per_proxy + 1].result # proxyTrace[1].result

\* C8: with exactly one configured endpoint every get_next_proxy call, forced
\* or not and however many calls were made before, returns that endpoint and
\* leaves the rotation index unchanged.
C8_SingleEndpointNeverRotates ==
    \A i \in CallEvents(proxyTrace) :
        Len(proxyTrace[i].cache) = 1
          => /\ proxyTrace[i].result = proxyTrace[i].cache[1]
             /\ proxyTrace[i].index = proxyTrace[i].index_before

(***************************************************************************)
(* get_next_proxy as the worker threads of OptimizedScraper.executor run   *)
(* it: browser_scrape_sync calls get_next_proxy() (non-forced) from up to  *)
(* browser_pool_size threads, and the function takes no lock, so the       *)
(* reads and writes of the globals interleave.  One action per access.     *)
(***************************************************************************)
\* Bound on the number of worker threads (ThreadPoolExecutor max_workers).
NumWorkers == 2

Workers == 1..NumWorkers

ThreadFrame == UNCHANGED << trackerVars, _proxies_cache, proxies, proxyTrace, poolVars, scraper >>

ThreadAt(w, pc) == w \in DOMAIN threads.t /\ threads.t[w].pc = pc

ThreadGoto(w, pc) == [threads EXCEPT !.t[w].pc = pc]

\* browser_scrape_sync enters get_next_proxy; `if not _proxies_cache: return None`
T_Enter(w) ==
    /\ ThreadAt(w, "start")
    /\ threads' = IF _proxies_cache = << >>
                  THEN [threads EXCEPT !.t[w].pc = "done", !.t[w].result = None]
                  ELSE ThreadGoto(w, "should_rotate")
    /\ UNCHANGED << _proxy_index, _proxy_usage_count >>
    /\ ThreadFrame

\* should_rotate = force_rotate or _proxy_usage_count >= _max_uses_per_proxy;
\* if should_rotate and len(_proxies_cache) > 1
T_ShouldRotate(w) ==
    /\ ThreadAt(w, "should_rotate")
    /\ LET should_rotate == _proxy_usage_count >= _max_uses_per_proxy IN
         threads' = IF should_rotate /\ Len(_proxies_cache) > 1
                    THEN ThreadGoto(w, "index_read")
                    ELSE ThreadGoto(w, "pick")
    /\ UNCHANGED << _proxy_index, _proxy_usage_count >>
    /\ ThreadFrame

\* _proxy_index = (_proxy_index + 1) % len(_proxies_cache): the read
T_IndexRead(w) ==
    /\ ThreadAt(w, "index_read")
    /\ threads' = [threads EXCEPT !.t[w].pc = "index_write", !.t[w].tmp = _proxy_index]
    /\ UNCHANGED << _proxy_index, _proxy_usage_count >>
    /\ ThreadFrame

\* ... and the write
T_IndexWrite(w) ==
    /\ ThreadAt(w, "index_write")
    /\ _proxy_index' = (threads.t[w].tmp + 1) % Len(_proxies_cache)
    /\ threads' = ThreadGoto(w, "count_reset")
    /\ UNCHANGED _proxy_usage_count
    /\ ThreadFrame

\* _proxy_usage_count = 0 (followed by the print)
T_CountReset(w) ==
    /\ ThreadAt(w, "count_reset")
    /\ _proxy_usage_count' = 0
    /\ threads' = ThreadGoto(w, "pick")
    /\ UNCHANGED _proxy_index
    /\ ThreadFrame

\* proxy = _proxies_cache[_proxy_index]
T_Pick(w) ==
    /\ ThreadAt(w, "pick")
    /\ threads' = [threads EXCEPT !.t[w].pc = "count_read",
                                  !.t[w].result = _proxies_cache[_proxy_index + 1]]
    /\ UNCHANGED << _proxy_index, _proxy_usage_count >>
    /\ ThreadFrame

\* _proxy_usage_count += 1: the read
T_CountRead(w) ==
    /\ ThreadAt(w, "count_read")
    /\ threads' = [threads EXCEPT !.t[w].pc = "count_write", !.t[w].tmp = _proxy_usage_count]
    /\ UNCHANGED << _proxy_index, _proxy_usage_count >>
    /\ ThreadFrame

\* ... and the write, then return proxy
T_CountWrite(w) ==
    /\ ThreadAt(w, "count_write")
    /\ _proxy_usage_count' = threads.t[w].tmp + 1
    /\ threads' = [threads EXCEPT !.t[w].pc = "done", !.t[w].tmp = 0]
    /\ UNCHANGED _proxy_index
    /\ ThreadFrame

\* The globals are in a state the sequential calls reach (a loaded list, a
\* valid index, a use-count up to the quota), every worker about to call.
InitProxyThreads ==
    /\ \E n \in 1..MaxProxies : _proxies_cache = ProxyList(n)
    /\ _proxy_index \in 0..(Len(_proxies_cache) - 1)
    /\ _proxy_usage_count \in 0.._max_uses_per_proxy
    /\ proxies = _proxies_cache
    /\ proxyTrace = << >>
    /\ threads = [ start |-> [index |-> _proxy_index, usage_count |-> _proxy_usage_count],
                   t     |-> [w \in Workers |-> [pc |-> "start", tmp |-> 0, result |-> None]] ]
    /\ tracker = NewTracker
    /\ trackerCalls = 0
    /\ pageWrites = tracker.pages_scanned
    /\ browser_managers = << >>
    /\ held = << >>
    /\ closed = {}
    /\ scraper = None

NextProxyThreads ==
    \E w \in Workers :
        \/ T_Enter(w)
        \/ T_ShouldRotate(w)
        \/ T_IndexRead(w)
        \/ T_IndexWrite(w)
        \/ T_CountReset(w)
        \/ T_Pick(w)
        \/ T_CountRead(w)
        \/ T_CountWrite(w)

SpecProxyThreads == InitProxyThreads /\ [][NextProxyThreads]_vars

\* The globals after k non-forced calls executed one at a time
RECURSIVE SequentialCalls(_, _, _, _)
SequentialCalls(cache, index, usage_count, k) ==
    IF k = 0 THEN [index |-> index, usage_count |-> usage_count]
    ELSE LET r == get_next_proxy(cache, index, usage_count, FALSE)
         IN SequentialCalls(cache, r.index, r.usage_count, k - 1)

AllWorkersDone == \A w \in Workers : threads.t[w].pc = "done"

\* C9: concurrent get_next_proxy calls behave as if executed one at a time:
\* once all of them have returned, the index and the use-count are those the
\* same calls leave when run sequentially (no increment lost, a quota-triggered
\* rotation advances the index by exactly one endpoint).
C9_ConcurrentCallsSerializable ==
    AllWorkersDone =>
        LET s == SequentialCalls(_proxies_cache, threads.start.index,
                                 threads.start.usage_count, NumWorkers)
        IN /\ _proxy_index = s.index
           /\ _proxy_usage_count = s.usage_count

(***************************************************************************)
(* The browser-manager pool of OptimizedScraper: get_browser_manager,      *)
(* return_browser_manager and the cleanup at the end of scrape_all.  The   *)
(* bodies run under browser_lock without awaiting, so each call is one     *)
(* step.  A caller holds at most one session and returns the one it holds. *)
(***************************************************************************)
\* OptimizedScraper.__init__ default
browser_pool_size == 3

\* Bound on the number of concurrent callers of the pool.
NumCallers == 4

\* Bound on the number of BrowserManager objects created in a run.
MaxSessions == 4

Callers == 1..NumCallers

NoSession == [id |-> 0, proxy |-> None, reused |-> FALSE]

\* BrowserManager(proxy_config) after launch_browser().  `reused` is history:
\* it records that the object has been handed out from the idle list.
BrowserManager(id, proxy_config) == [id |-> id, proxy |-> proxy_config, reused |-> FALSE]

IdleSessions == Range(browser_managers)

HeldSessions == { held[c] : c \in Callers } \ { NoSession }

LiveSessions == IdleSessions \cup HeldSessions

SessionsCreated == Cardinality(LiveSessions \cup closed)

get_browser_manager_peek(idle, new_session) ==
    IF idle # << >>
    THEN [session |-> [idle[Len(idle)] EXCEPT !.reused = TRUE], idle |-> idle, created |-> FALSE]
    ELSE [session |-> new_session, idle |-> idle, created |-> TRUE]

\* get_browser_manager: pop the last idle session, or create one
get_browser_manager(idle, new_session) ==
    IF idle # << >>
    THEN [session |-> [idle[Len(idle)] EXCEPT !.reused = TRUE],
          idle |-> SubSeq(idle, 1, Len(idle) - 1), created |-> FALSE]
    ELSE [session |-> new_session, idle |-> idle, created |-> TRUE]

return_browser_manager_always_append(idle, session) ==
    [idle |-> Append(idle, session), closed |-> {}]

\* return_browser_manager: append to the idle list, or close_browser()
return_browser_manager(idle, session) ==
    IF Len(idle) < browser_pool_size
    THEN [idle |-> Append(idle, session), closed |-> {}]
    ELSE [idle |-> idle, closed |-> { session }]

PoolFrame == UNCHANGED << trackerVars, threads, scraper, _proxies_cache, proxies, proxyTrace >>

GetBrowserManager(c) ==
    /\ held[c] = NoSession
    /\ browser_managers = << >> => SessionsCreated < MaxSessions
    /\ LET p == IF proxies # << >>
                THEN get_next_proxy(_proxies_cache, _proxy_index, _proxy_usage_count, FALSE)
                ELSE [result |-> None, index |-> _proxy_index, usage_count |-> _proxy_usage_count]
           r == get_browser_manager(browser_managers,
                                    BrowserManager(SessionsCreated + 1, p.result))
       IN /\ browser_managers' = r.idle
          /\ held' = [held EXCEPT ![c] = r.session]
          /\ _proxy_index' = IF r.created THEN p.index ELSE _proxy_index
          /\ _proxy_usage_count' = IF r.created THEN p.usage_count ELSE _proxy_usage_count
    /\ UNCHANGED closed
    /\ PoolFrame

ReturnBrowserManager(c) ==
    /\ held[c] # NoSession
    /\ LET r == return_browser_manager(browser_managers, held[c])
       IN /\ browser_managers' = r.idle
          /\ closed' = closed \cup r.closed
    /\ held' = [held EXCEPT ![c] = NoSession]
    /\ UNCHANGED << _proxy_index, _proxy_usage_count >>
    /\ PoolFrame

\* scrape_all: close every idle session and clear the list
CleanupBrowserPool ==
    /\ browser_managers # << >>
    /\ closed' = closed \cup IdleSessions
    /\ browser_managers' = << >>
    /\ UNCHANGED << held, _proxy_index, _proxy_usage_count >>
    /\ PoolFrame

\* A new OptimizedScraper: load_proxies() has returned a list, reset_proxy_usage()
\* has run, the idle list is empty.
InitPool ==
    /\ \E n \in { 0, 2 } : _proxies_cache = ProxyList(n)
    /\ proxies = _proxies_cache
    /\ _proxy_index = 0
    /\ _proxy_usage_count = 0
    /\ proxyTrace = << >>
    /\ browser_managers = << >>
    /\ held = [c \in Callers |-> NoSession]
    /\ closed = {}
    /\ tracker = NewTracker
    /\ trackerCalls = 0
    /\ pageWrites = tracker.pages_scanned
    /\ threads = << >>
    /\ scraper = None

NextPool ==
    \/ \E c \in Callers : GetBrowserManager(c)
    \/ \E c \in Callers : ReturnBrowserManager(c)
    \/ CleanupBrowserPool

SpecPool == InitPool /\ [][NextPool]_vars

\* C5: under any interleaving of get_browser_manager and return_browser_manager
\* calls (each caller returning the session it holds once), no session is
\* checked out to two callers at the same time, no session appears twice in
\* the idle list, and no idle session is checked out.
C5_NoSessionSharedOrDuplicated ==
    /\ \A c1, c2 \in Callers :
         (c1 # c2 /\ held[c1] # NoSession) => held[c1].id # held[c2].id
    /\ \A i, j \in DOMAIN browser_managers :
         i # j => browser_managers[i].id # browser_managers[j].id
    /\ \A c \in Callers, i \in DOMAIN browser_managers :
         held[c].id # browser_managers[i].id

\* Two callers hold sessions at once, one of them a session that had been
\* returned and was handed out again, while another session sits idle.
C5_Witness ==
    /\ \E c1, c2 \in Callers :
         /\ c1 # c2
         /\ held[c1] # NoSession
         /\ held[c1].reused
         /\ held[c2] # NoSession
    /\ browser_managers # << >>

\* C6: the number of live sessions (idle plus checked out) never exceeds
\* browser_pool_size, get_browser_manager creating a session only below
\* capacity and otherwise waiting.
C6_LiveSessionsWithinCapacity ==
    Cardinality(LiveSessions) <= browser_pool_size

(***************************************************************************)
(* The scrapers: OptimizedScraper (ultimate_scraper_optimized.py), whose   *)
(* scrape_all gathers one scrape_url task per URL, and UltimateScraper     *)
(* (ultimate_scraper.py), whose scrape_all awaits scrape_url URL by URL.   *)
(***************************************************************************)
BLOCKED_DOMAINS ==
    << "facebook.com", "fb.com", "instagram.com", "twitter.com", "x.com",
       "linkedin.com", "youtube.com", "tiktok.com", "snapchat.com",
       "pinterest.com", "reddit.com", "tumblr.com", "whatsapp.com",
       "telegram.org", "t.me", "discord.com", "discord.gg",
       "twitch.tv", "vimeo.com", "flickr.com", "medium.com" >>

SocialMediaMessage == "Social media URLs are not supported (use business websites only)"
SchemeMessage      == "URL must start with http:// or https://"
DomainMessage      == "Invalid URL format (missing domain)"

is_social_media_url(url) ==
    LET url_lower == StrLower(url) IN
    \E i \in DOMAIN BLOCKED_DOMAINS : StrContains(url_lower, BLOCKED_DOMAINS[i])

validate_url_no_denylist(url) ==
    IF ~(StrStartsWith(url, "http://") \/ StrStartsWith(url, "https://"))
    THEN [is_valid |-> FALSE, error_msg |-> SchemeMessage]
    ELSE IF StrCount(url, ".") < 1
    THEN [is_valid |-> FALSE, error_msg |-> DomainMessage]
    ELSE [is_valid |-> TRUE, error_msg |-> ""]

validate_url(url) ==
    IF is_social_media_url(url)
    THEN [is_valid |-> FALSE, error_msg |-> SocialMediaMessage]
    ELSE IF ~(StrStartsWith(url, "http://") \/ StrStartsWith(url, "https://"))
    THEN [is_valid |-> FALSE, error_msg |-> SchemeMessage]
    ELSE IF StrCount(url, ".") < 1
    THEN [is_valid |-> FALSE, error_msg |-> DomainMessage]
    ELSE [is_valid |-> TRUE, error_msg |-> ""]

js_indicators ==
    << "react", "angular", "vue.js", "next.js", "__NEXT_DATA__", "ng-app", "v-app",
       "data-reactroot", "data-react-helmet" >>

MIN_TEXT_LENGTH == 200

\* needs_browser.  An html document is its markup `raw` and `text_len`, the
\* length of BeautifulSoup(html).get_text().strip().
needs_browser(html) ==
    \/ html.raw = ""
    \/ \E i \in DOMAIN js_indicators : StrContains(StrLower(html.raw), js_indicators[i])
    \/ html.text_len < MIN_TEXT_LENGTH

\* Documents a site may serve.
HtmlInputs ==
    { [raw |-> "<div id=app data-reactroot></div>", text_len |-> 450],
      [raw |-> "<script id=__NEXT_DATA__></script><p>shop</p>", text_len |-> 450],
      [raw |-> "<p>contact us</p>", text_len |-> 199],
      [raw |-> "<p>contact us</p>", text_len |-> 200] }

\* What session.get can do on one attempt (the body of the 503 is empty).
HttpResponses ==
    { [kind |-> "response", status |-> 200, html |-> h] : h \in HtmlInputs }
      \cup { [kind |-> "response", status |-> 503, html |-> [raw |-> "", text_len |-> 0]],
             [kind |-> "timeout",  status |-> 0,   html |-> [raw |-> "", text_len |-> 0]],
             [kind |-> "error",    status |-> 0,   html |-> [raw |-> "", text_len |-> 0]] }

\* What browser_scrape_sync / browser_scrape can do: return the data, find
\* load_page false, or catch an exception; the last two return None.
BrowserResults == { "data", "load_failed", "exception" }

\* BrowserManager.load_page default
max_retries == 3

load_page_no_wait(nav_failures) ==
    [ loaded      |-> nav_failures < max_retries,
      navigations |-> IF nav_failures < max_retries THEN nav_failures + 1 ELSE max_retries,
      waits       |-> << >> ]

\* BrowserManager.load_page on a page whose first nav_failures navigations
\* time out or raise: attempts 1..max_retries, time.sleep(2 ** attempt) after
\* a failed attempt that is not the last
load_page(nav_failures) ==
    LET failed == IF nav_failures < max_retries THEN nav_failures ELSE max_retries IN
    [ loaded      |-> nav_failures < max_retries,
      navigations |-> IF nav_failures < max_retries THEN nav_failures + 1 ELSE max_retries,
      waits       |-> [attempt \in 1..(IF failed < max_retries THEN failed ELSE max_retries - 1)
                          |-> 2 ^ attempt] ]

\* What a browser run meets: whether launch_browser works, how many
\* navigations fail first, whether scrolling and extraction work.
BrowserInputs ==
    { [launch_ok |-> FALSE, nav_failures |-> 0, extract_ok |-> FALSE] }
      \cup { [launch_ok |-> TRUE, nav_failures |-> f, extract_ok |-> TRUE] :
               f \in { 0, max_retries - 1 } }
      \cup { [launch_ok |-> TRUE, nav_failures |-> 0, extract_ok |-> FALSE] }
      \cup { [launch_ok |-> TRUE, nav_failures |-> max_retries, extract_ok |-> FALSE] }

browser_scrape_sync_no_finally(inp) ==
    LET lp == load_page(inp.nav_failures)
        ok == inp.launch_ok /\ lp.loaded /\ inp.extract_ok
    IN
    [ result      |-> IF ~inp.launch_ok THEN "exception"
                      ELSE IF ~lp.loaded THEN "load_failed"
                      ELSE IF ~inp.extract_ok THEN "exception"
                      ELSE "data",
      launches    |-> 1,
      navigations |-> IF inp.launch_ok THEN lp.navigations ELSE 0,
      nav_waits   |-> IF inp.launch_ok THEN lp.waits ELSE << >>,
      closes      |-> IF ok THEN 1 ELSE 0 ]

\* browser_scrape_sync (and UltimateScraper.browser_scrape, the same code):
\* a new BrowserManager is launched for the URL, the page loaded and the
\* fields extracted; any exception gives None; close_browser runs in the
\* finally clause.
browser_scrape_sync(inp) ==
    LET lp == load_page(inp.nav_failures) IN
    [ result      |-> IF ~inp.launch_ok THEN "exception"
                      ELSE IF ~lp.loaded THEN "load_failed"
                      ELSE IF ~inp.extract_ok THEN "exception"
                      ELSE "data",
      launches    |-> 1,
      navigations |-> IF inp.launch_ok THEN lp.navigations ELSE 0,
      nav_waits   |-> IF inp.launch_ok THEN lp.waits ELSE << >>,
      closes      |-> 1 ]

\* Bound on the number of URLs submitted to scrape_all.
NumUrls == 3

\* Bound on the retry_attempts value given to OptimizedScraper.
MaxRetryAttempts == 4

\* max_concurrent of the scraper under test (the semaphore's initial value).
TestMaxConcurrent == 2

\* rate_limit_delay default, in tenths of a second
rate_limit_delay == 5

\* URLs a caller submits, in this order.
UrlPool ==
    << "https://good.example", "https://facebook.com/x", "https://slow.example",
       "https://Instagram.com/user", "http://localhost", "www.shop.example",
       "https://fedex.com/contact" >>

\* Business sites for a forced-browser batch.
BatchUrlPool ==
    << "https://good.example", "https://slow.example", "https://shop.example",
       "https://cafe.example", "https://books.example", "https://tools.example" >>

\* validate_url on the URLs a caller submits
ValidatedUrl == [ u \in Range(UrlPool) \cup Range(BatchUrlPool) |-> validate_url(u) ]

\* The URL lists: NumUrls consecutive entries of UrlPool, from any start.
UrlLists ==
    { SubSeq(UrlPool, start, start + NumUrls - 1) :
        start \in 1..(Len(UrlPool) - NumUrls + 1) }

\* A caller may also submit one URL.
SoloUrlLists == { << UrlPool[k] >> : k \in 1..Len(UrlPool) }

\* retry_attempts when the caller passes none
default_retry_attempts == 2

StatNames == { "http_success", "browser_success", "failed", "skipped", "retries" }

\* The dicts scrape_url returns; a key the code leaves out is None here.
SkippedResult(url, reason) == [url |-> url, status |-> "skipped", reason |-> reason, method |-> None]
FailedResult(url, method)  == [url |-> url, status |-> "failed",  reason |-> None,   method |-> method]
DataResult(url, method)    == [url |-> url, status |-> None,      reason |-> None,   method |-> method]

NewTask ==
    [ pc              |-> "pending",
      attempt         |-> 0,
      status          |-> None,      \* the status try_http_scrape_with_retry returned
      returned        |-> << >>,     \* the values scrape_url returned
      counted         |-> << >>,     \* the outcome counters incremented for this URL
      http_requests   |-> 0,         \* session.get calls issued
      attempts        |-> << >>,     \* how each of them ended: "ok" (status 200),
                                     \* "status" (another status), "transient"
                                     \* (timeout or another exception)
      content         |-> << >>,     \* the html of the response the cheap path read
      browser_renders |-> 0,         \* browser_scrape_sync / browser_scrape calls
      rendered        |-> << >>,     \* what those calls returned
      data            |-> None,      \* the result of the future of run_in_executor
      launches        |-> 0,         \* launch_browser calls
      navigations     |-> 0,         \* page.goto calls
      nav_waits       |-> << >>,     \* sleeps of load_page, in seconds
      closes          |-> 0,         \* close_browser calls
      delays          |-> 0,         \* rate-limit sleeps
      waits           |-> << >> ]    \* backoff sleeps, in seconds

NewScraper(variant, force_browser, retry_attempts, urls) ==
    [ variant        |-> variant,
      force_browser  |-> force_browser,
      retry_attempts |-> retry_attempts,
      max_concurrent |-> TestMaxConcurrent,
      browser_pool_size |-> browser_pool_size,  \* max_workers of the executor
      urls           |-> urls,
      stats          |-> [n \in StatNames |-> 0],
      results        |-> << >>,
      permits        |-> TestMaxConcurrent,   \* free slots of rate_limiter
      busy_workers   |-> 0,                   \* executor threads in browser_scrape_sync
      next_url       |-> 1,                   \* UltimateScraper.scrape_all loop position
      finished       |-> FALSE,               \* scrape_all has returned
      tasks          |-> [i \in DOMAIN urls |-> NewTask] ]

TaskIds == DOMAIN scraper.urls

\* Bound on the number of URLs of a forced-browser batch.
NumBatchUrls == 4

\* the task positions of the longest URL list
TaskSlots == 1..(IF NumUrls > NumBatchUrls THEN NumUrls ELSE NumBatchUrls)

IsOptimized == scraper.variant = "optimized"
IsUltimate  == scraper.variant = "ultimate"

Return_skipped_uncounted(s, i, result, counter) ==
    [ s EXCEPT !.tasks[i].pc = "done",
               !.tasks[i].returned = Append(@, result),
               !.tasks[i].counted = IF counter = "skipped" THEN @ ELSE Append(@, counter),
               !.stats[counter] = IF counter = "skipped" THEN @ ELSE @ + 1 ]

\* scrape_url returns `result` after incrementing stats[counter]
Return(s, i, result, counter) ==
    [ s EXCEPT !.tasks[i].pc = "done",
               !.tasks[i].returned = Append(@, result),
               !.tasks[i].counted = Append(@, counter),
               !.stats[counter] = @ + 1 ]

ReleaseSlot_leak(s) == s

\* leaving `async with self.rate_limiter`
ReleaseSlot(s) == [ s EXCEPT !.permits = @ + 1 ]

ScrapeFrame == UNCHANGED << trackerVars, threads, poolVars, _proxies_cache, proxies, proxyTrace >>

ProxyUnchanged == UNCHANGED << _proxy_index, _proxy_usage_count >>

AfterHttp_no_escalation(s, i, status) ==
    IF status = "http_success"
    THEN ReleaseSlot(Return([s EXCEPT !.tasks[i].status = status], i,
                            DataResult(s.urls[i], "http"), "http_success"))
    ELSE ReleaseSlot(Return([s EXCEPT !.tasks[i].status = status], i,
                            FailedResult(s.urls[i], None), "failed"))

\* the end of the cheap path: `status` decides what scrape_url does next
AfterHttp(s, i, status) ==
    IF status = "http_success"
    THEN ReleaseSlot(Return([s EXCEPT !.tasks[i].status = status], i,
                            DataResult(s.urls[i], "http"), "http_success"))
    ELSE [ s EXCEPT !.tasks[i].status = status, !.tasks[i].pc = "browser_queued" ]

\* OptimizedScraper.scrape_url up to its first await: take a slot, validate,
\* return the skipped dict or go on to the rate-limit sleep.
O_Enter(i) ==
    /\ IsOptimized
    /\ i \in TaskIds
    /\ scraper.tasks[i].pc = "pending"
    /\ scraper.permits > 0
    /\ LET v  == ValidatedUrl[scraper.urls[i]]
           s1 == [ scraper EXCEPT !.permits = @ - 1 ]
       IN scraper' =
            IF ~v.is_valid
            THEN ReleaseSlot(Return(s1, i, SkippedResult(scraper.urls[i], v.error_msg), "skipped"))
            ELSE IF rate_limit_delay > 0
            THEN [ s1 EXCEPT !.tasks[i].pc = "rate_limit" ]
            ELSE IF s1.force_browser
            THEN [ s1 EXCEPT !.tasks[i].pc = "browser_queued" ]
            ELSE IF s1.retry_attempts = 0
            THEN AfterHttp(s1, i, "http_error")
            ELSE [ s1 EXCEPT !.tasks[i].pc = "http" ]
    /\ ProxyUnchanged
    /\ ScrapeFrame

\* the rate-limit sleep ends: forced browser mode, or the first HTTP attempt
O_RateLimitDone(i) ==
    /\ IsOptimized
    /\ i \in TaskIds
    /\ scraper.tasks[i].pc = "rate_limit"
    /\ LET s1 == [ scraper EXCEPT !.tasks[i].delays = @ + 1 ]
       IN scraper' =
            IF s1.force_browser
            THEN [ s1 EXCEPT !.tasks[i].pc = "browser_queued" ]
            ELSE IF s1.retry_attempts = 0
            THEN AfterHttp(s1, i, "http_error")
            ELSE [ s1 EXCEPT !.tasks[i].pc = "http" ]
    /\ ProxyUnchanged
    /\ ScrapeFrame

\* how one session.get ended
AttemptKind(response) ==
    IF response.kind = "response"
    THEN IF response.status = 200 THEN "ok" ELSE "status"
    ELSE "transient"

backoff_wait_linear(attempt) == attempt + 1

\* asyncio.sleep(2 ** attempt), in seconds
backoff_wait(attempt) == 2 ^ attempt

try_http_attempt_extra(s, i, response) ==
    LET attempt == s.tasks[i].attempt
        s1      == [ s EXCEPT !.tasks[i].http_requests = @ + 1,
                              !.tasks[i].attempts = Append(@, AttemptKind(response)),
                              !.tasks[i].content =
                                  IF response.kind = "response" /\ response.status = 200
                                  THEN Append(@, response.html) ELSE @ ]
        last    == attempt >= s.retry_attempts
    IN IF response.kind = "response" /\ response.status = 200
       THEN AfterHttp(s1, i, IF needs_browser(response.html) THEN "needs_browser" ELSE "http_success")
       ELSE IF response.kind = "response"
       THEN \* non-200: last_error is set and the loop goes on at once
            IF last THEN AfterHttp(s1, i, "http_error")
            ELSE [ s1 EXCEPT !.tasks[i].attempt = @ + 1 ]
       ELSE \* asyncio.TimeoutError or another exception
            IF last THEN AfterHttp(s1, i, "http_error")
            ELSE [ s1 EXCEPT !.stats["retries"] = @ + 1,
                             !.tasks[i].pc = "backoff",
                             !.tasks[i].waits = Append(@, backoff_wait(attempt)) ]

\* one iteration of the loop of try_http_scrape_with_retry: session.get
\* completes with `response`
try_http_attempt(s, i, response) ==
    LET attempt == s.tasks[i].attempt
        s1      == [ s EXCEPT !.tasks[i].http_requests = @ + 1,
                              !.tasks[i].attempts = Append(@, AttemptKind(response)),
                              !.tasks[i].content =
                                  IF response.kind = "response" /\ response.status = 200
                                  THEN Append(@, response.html) ELSE @ ]
        last    == attempt >= s.retry_attempts - 1
    IN IF response.kind = "response" /\ response.status = 200
       THEN AfterHttp(s1, i, IF needs_browser(response.html) THEN "needs_browser" ELSE "http_success")
       ELSE IF response.kind = "response"
       THEN \* non-200: last_error is set and the loop goes on at once
            IF last THEN AfterHttp(s1, i, "http_error")
            ELSE [ s1 EXCEPT !.tasks[i].attempt = @ + 1 ]
       ELSE \* asyncio.TimeoutError or another exception
            IF last THEN AfterHttp(s1, i, "http_error")
            ELSE [ s1 EXCEPT !.stats["retries"] = @ + 1,
                             !.tasks[i].pc = "backoff",
                             !.tasks[i].waits = Append(@, backoff_wait(attempt)) ]

O_HttpAttempt(i) ==
    /\ IsOptimized
    /\ i \in TaskIds
    /\ scraper.tasks[i].pc = "http"
    /\ \E response \in HttpResponses : scraper' = try_http_attempt(scraper, i, response)
    /\ ProxyUnchanged
    /\ ScrapeFrame

\* the backoff sleep ends and the loop takes its next iteration
O_BackoffDone(i) ==
    /\ IsOptimized
    /\ i \in TaskIds
    /\ scraper.tasks[i].pc = "backoff"
    /\ scraper' = [ scraper EXCEPT !.tasks[i].pc = "http", !.tasks[i].attempt = @ + 1 ]
    /\ ProxyUnchanged
    /\ ScrapeFrame

\* the executor threads of a scraper, one record for the run of each task:
\* idle until browser_scrape_sync is picked up
ExecutorThreads(urls) ==
    [ start |-> [index |-> _proxy_index, usage_count |-> _proxy_usage_count],
      t     |-> [i \in DOMAIN urls |-> [pc |-> "idle", tmp |-> 0, result |-> None]] ]

\* browser_scrape_async: an executor thread picks browser_scrape_sync(url) up;
\* when proxies are configured it enters get_next_proxy, which it runs
\* statement by statement (T_Enter .. T_CountWrite) beside the other threads
O_BrowserStart(i) ==
    /\ IsOptimized
    /\ i \in TaskIds
    /\ scraper.tasks[i].pc = "browser_queued"
    /\ scraper.busy_workers < scraper.browser_pool_size
    /\ scraper' = [ scraper EXCEPT !.tasks[i].pc = "browser_running",
                                   !.tasks[i].browser_renders = @ + 1,
                                   !.busy_workers = @ + 1 ]
    /\ threads' = [ threads EXCEPT !.t[i].pc = IF proxies # << >> THEN "start" ELSE "done" ]
    /\ ProxyUnchanged
    /\ UNCHANGED << trackerVars, poolVars, _proxies_cache, proxies, proxyTrace >>

\* what one browser run did for task i
RecordRun(s, i, run) ==
    [ s EXCEPT !.tasks[i].launches = @ + run.launches,
               !.tasks[i].navigations = @ + run.navigations,
               !.tasks[i].nav_waits = @ \o run.nav_waits,
               !.tasks[i].closes = @ + run.closes ]

\* what scrape_url does with the value browser_scrape returned
AfterBrowser(s0, i, result) ==
    LET s == [ s0 EXCEPT !.tasks[i].rendered = Append(@, IF result = "data" THEN "data" ELSE None) ]
    IN
    IF result = "data"
    THEN Return(s, i, DataResult(s.urls[i], "browser"), "browser_success")
    ELSE Return(s, i,
                FailedResult(s.urls[i],
                             IF s.force_browser \/ s.tasks[i].status = "needs_browser"
                             THEN "browser" ELSE None),
                "failed")

\* the executor thread of task i has its proxy (or needs none): it builds
\* the BrowserManager and calls launch_browser(); an exception there leaves
\* through the finally clause
O_Launch(i) ==
    /\ IsOptimized
    /\ i \in TaskIds
    /\ scraper.tasks[i].pc = "browser_running"
    /\ ThreadAt(i, "done")
    /\ \E launch_ok \in BOOLEAN :
         scraper' = [ scraper EXCEPT
                        !.tasks[i].launches = @ + 1,
                        !.tasks[i].pc = IF launch_ok THEN "loading" ELSE "closing",
                        !.tasks[i].data = IF launch_ok THEN @ ELSE "exception" ]
    /\ ProxyUnchanged
    /\ ScrapeFrame

\* one attempt of load_page in the thread of task i: page.goto returns, or it
\* times out or raises; after a failed attempt that is not the last the
\* thread sleeps 2 ** attempt seconds, after the last load_page returns False
O_Navigate(i) ==
    /\ IsOptimized
    /\ i \in TaskIds
    /\ scraper.tasks[i].pc = "loading"
    /\ \E goto_ok \in BOOLEAN :
         LET failed == scraper.tasks[i].navigations + (IF goto_ok THEN 0 ELSE 1)
             lp     == load_page(failed)
         IN scraper' = [ scraper EXCEPT
                           !.tasks[i].navigations = @ + 1,
                           !.tasks[i].nav_waits = lp.waits,
                           !.tasks[i].pc = IF goto_ok THEN "loaded"
                                           ELSE IF lp.loaded THEN "loading" ELSE "closing",
                           !.tasks[i].data = IF goto_ok \/ lp.loaded THEN @ ELSE "load_failed" ]
    /\ ProxyUnchanged
    /\ ScrapeFrame

\* the page is loaded: scroll_to_bottom and the extract_* calls run in the
\* thread of task i and give the data, or one of them raises
O_Extract(i) ==
    /\ IsOptimized
    /\ i \in TaskIds
    /\ scraper.tasks[i].pc = "loaded"
    /\ \E extract_ok \in BOOLEAN :
         scraper' = [ scraper EXCEPT
                        !.tasks[i].pc = "closing",
                        !.tasks[i].data = IF extract_ok THEN "data" ELSE "exception" ]
    /\ ProxyUnchanged
    /\ ScrapeFrame

\* what the run of task t met, as browser_scrape_sync takes it
RunOf(t) ==
    [ launch_ok    |-> t.navigations > 0,
      nav_failures |-> IF t.navigations = 0 THEN 0
                       ELSE IF t.data = "load_failed" THEN max_retries
                       ELSE t.navigations - 1,
      extract_ok   |-> t.data = "data" ]

O_BrowserDone_worker_kept(i) ==
    /\ IsOptimized
    /\ i \in TaskIds
    /\ scraper.tasks[i].pc = "closing"
    /\ LET run == browser_scrape_sync(RunOf(scraper.tasks[i])) IN
         scraper' = [ scraper EXCEPT !.tasks[i].closes = @ + run.closes,
                                     !.tasks[i].pc = "browser_returned",
                                     !.tasks[i].data = run.result ]
    /\ ProxyUnchanged
    /\ ScrapeFrame

\* the end of browser_scrape_sync in the thread of task i: close_browser in
\* the finally clause, then the return; the thread is free again and the
\* future of run_in_executor is set
O_BrowserDone(i) ==
    /\ IsOptimized
    /\ i \in TaskIds
    /\ scraper.tasks[i].pc = "closing"
    /\ LET run == browser_scrape_sync(RunOf(scraper.tasks[i])) IN
         scraper' = [ scraper EXCEPT !.busy_workers = @ - 1,
                                     !.tasks[i].closes = @ + run.closes,
                                     !.tasks[i].pc = "browser_returned",
                                     !.tasks[i].data = run.result ]
    /\ ProxyUnchanged
    /\ ScrapeFrame

\* the event loop resumes scrape_url after `await browser_scrape_async(url)`:
\* it counts the outcome, returns and leaves the rate limiter
O_BrowserResume(i) ==
    /\ IsOptimized
    /\ i \in TaskIds
    /\ scraper.tasks[i].pc = "browser_returned"
    /\ scraper' = ReleaseSlot(AfterBrowser(scraper, i, scraper.tasks[i].data))
    /\ ProxyUnchanged
    /\ ScrapeFrame

O_Gather_abort ==
    /\ IsOptimized
    /\ ~scraper.finished
    /\ \E i \in TaskIds : scraper.tasks[i].counted = << "failed" >>
    /\ scraper' = [ scraper EXCEPT !.finished = TRUE ]
    /\ ProxyUnchanged
    /\ ScrapeFrame

\* asyncio.gather has every result: scrape_all appends them and returns
O_Gather ==
    /\ IsOptimized
    /\ ~scraper.finished
    /\ \A i \in TaskIds : scraper.tasks[i].pc = "done"
    /\ scraper' = [ scraper EXCEPT
                      !.results = [i \in TaskIds |-> scraper.tasks[i].returned[1]],
                      !.finished = TRUE ]
    /\ ProxyUnchanged
    /\ ScrapeFrame

\* UltimateScraper.try_http_scrape: one request, no status test
try_http_scrape(response) ==
    IF response.kind = "response"
    THEN IF needs_browser(response.html) THEN "needs_browser" ELSE "http_success"
    ELSE "http_error"

\* UltimateScraper.scrape_all: the next iteration of its loop, that is one
\* whole scrape_url call (nothing else runs while it awaits), and the append
U_ScrapeUrl(i) ==
    /\ IsUltimate
    /\ i \in TaskIds
    /\ scraper.next_url = i
    /\ LET url == scraper.urls[i]
           v   == ValidatedUrl[url]
           s0  == [ scraper EXCEPT !.next_url = @ + 1,
                                   !.finished = (i = Len(scraper.urls)) ]
           Browser(s, inp) ==
               LET run == browser_scrape_sync(inp) IN
               AfterBrowser(RecordRun([s EXCEPT !.tasks[i].browser_renders = @ + 1], i, run),
                            i, run.result)
           Append1(s) == [ s EXCEPT !.results = Append(@, s.tasks[i].returned[1]) ]
           \* browser_scrape: `get_next_proxy() if self.proxies else None`
           TakeProxy ==
               LET p == IF proxies # << >>
                        THEN get_next_proxy(_proxies_cache, _proxy_index, _proxy_usage_count, FALSE)
                        ELSE [result |-> None, index |-> _proxy_index,
                              usage_count |-> _proxy_usage_count]
               IN /\ _proxy_index' = p.index
                  /\ _proxy_usage_count' = p.usage_count
       IN \/ /\ ~v.is_valid
             /\ scraper' = Append1(Return(s0, i, SkippedResult(url, v.error_msg), "skipped"))
             /\ ProxyUnchanged
          \/ /\ v.is_valid
             /\ scraper.force_browser
             /\ \E inp \in BrowserInputs : scraper' = Append1(Browser(s0, inp))
             /\ TakeProxy
          \/ /\ v.is_valid
             /\ ~scraper.force_browser
             /\ \E response \in HttpResponses :
                  LET status == try_http_scrape(response)
                      s1 == [ s0 EXCEPT !.tasks[i].http_requests = @ + 1,
                                        !.tasks[i].attempts =
                                            Append(@, IF response.kind = "response"
                                                      THEN "ok" ELSE "transient"),
                                        !.tasks[i].content =
                                            IF response.kind = "response"
                                            THEN Append(@, response.html) ELSE @,
                                        !.tasks[i].status = status ]
                  IN IF status = "http_success"
                     THEN /\ scraper' = Append1(Return(s1, i, DataResult(url, "http"), "http_success"))
                          /\ ProxyUnchanged
                     ELSE /\ \E inp \in BrowserInputs : scraper' = Append1(Browser(s1, inp))
                          /\ TakeProxy
    /\ ScrapeFrame

\* A scraper has been constructed (load_proxies, reset_proxy_usage) and
\* scrape_all(urls) called.  No verification tracker is part of either class.
InitScrape ==
    /\ \E variant \in { "optimized", "ultimate" }, force_browser \in BOOLEAN,
          retry_attempts \in 1..MaxRetryAttempts, urls \in UrlLists \cup SoloUrlLists :
         /\ variant = "ultimate" => retry_attempts = 1
         \* several URLs at once are run with at most the default number of
         \* attempts, a larger retry_attempts with one URL
         /\ Len(urls) > 1 => retry_attempts <= default_retry_attempts
         /\ scraper = NewScraper(variant, force_browser, retry_attempts, urls)
    /\ \E n \in { 0, 2 } : _proxies_cache = ProxyList(n)
    /\ proxies = _proxies_cache
    /\ _proxy_index = 0
    /\ _proxy_usage_count = 0
    /\ proxyTrace = << >>
    /\ tracker = NewTracker
    /\ trackerCalls = 0
    /\ pageWrites = tracker.pages_scanned
    /\ threads = ExecutorThreads(scraper.urls)
    /\ browser_managers = << >>
    /\ held = << >>
    /\ closed = {}

NextScrape ==
    \/ \E i \in TaskSlots : O_Enter(i)
    \/ \E i \in TaskSlots : O_RateLimitDone(i)
    \/ \E i \in TaskSlots : O_HttpAttempt(i)
    \/ \E i \in TaskSlots : O_BackoffDone(i)
    \/ \E i \in TaskSlots : O_BrowserStart(i)
    \/ \E i \in TaskSlots : T_Enter(i)
    \/ \E i \in TaskSlots : T_ShouldRotate(i)
    \/ \E i \in TaskSlots : T_Pick(i)
    \/ \E i \in TaskSlots : T_CountRead(i)
    \/ \E i \in TaskSlots : T_CountWrite(i)
    \/ \E i \in TaskSlots : O_Launch(i)
    \/ \E i \in TaskSlots : O_Navigate(i)
    \/ \E i \in TaskSlots : O_Extract(i)
    \/ \E i \in TaskSlots : O_BrowserDone(i)
    \/ \E i \in TaskSlots : O_BrowserResume(i)
    \/ O_Gather
    \/ \E i \in TaskSlots : U_ScrapeUrl(i)

SpecScrape == InitScrape /\ [][NextScrape]_vars

\* OptimizedScraper(force_browser=True).scrape_all(urls) on NumBatchUrls
\* business sites: every URL takes the browser path.
InitBrowserBatch ==
    /\ scraper = NewScraper("optimized", TRUE, 2,
                            [k \in 1..NumBatchUrls |-> BatchUrlPool[((k - 1) % Len(BatchUrlPool)) + 1]])
    /\ \E n \in { 0, 2 } : _proxies_cache = ProxyList(n)
    /\ proxies = _proxies_cache
    /\ _proxy_index = 0
    /\ _proxy_usage_count = 0
    /\ proxyTrace = << >>
    /\ tracker = NewTracker
    /\ trackerCalls = 0
    /\ pageWrites = tracker.pages_scanned
    /\ threads = ExecutorThreads(scraper.urls)
    /\ browser_managers = << >>
    /\ held = << >>
    /\ closed = {}

NextBrowserBatch ==
    \/ \E i \in TaskSlots : O_Enter(i)
    \/ \E i \in TaskSlots : O_RateLimitDone(i)
    \/ \E i \in TaskSlots : O_BrowserStart(i)
    \/ \E i \in TaskSlots : T_Enter(i)
    \/ \E i \in TaskSlots : T_ShouldRotate(i)
    \/ \E i \in TaskSlots : T_Pick(i)
    \/ \E i \in TaskSlots : T_CountRead(i)
    \/ \E i \in TaskSlots : T_CountWrite(i)
    \/ \E i \in TaskSlots : O_Launch(i)
    \/ \E i \in TaskSlots : O_Navigate(i)
    \/ \E i \in TaskSlots : O_Extract(i)
    \/ \E i \in TaskSlots : O_BrowserDone(i)
    \/ \E i \in TaskSlots : O_BrowserResume(i)
    \/ O_Gather

SpecBrowserBatch == InitBrowserBatch /\ [][NextBrowserBatch]_vars

\* A max_concurrent above browser_pool_size, as with the defaults (10 and 3).
WideMaxConcurrent == 2
NarrowPoolSize == 1

\* Number of URLs of that batch.
NumQueueUrls == 3

\* OptimizedScraper(force_browser=True, max_concurrent=WideMaxConcurrent,
\* browser_pool_size=NarrowPoolSize).scrape_all(urls) with no proxies.txt:
\* more tasks hold a slot than the executor has threads.
InitBrowserQueue ==
    /\ scraper = [ NewScraper("optimized", TRUE, 2,
                      [k \in 1..NumQueueUrls |-> BatchUrlPool[((k - 1) % Len(BatchUrlPool)) + 1]])
                    EXCEPT !.max_concurrent = WideMaxConcurrent,
                           !.permits = WideMaxConcurrent,
                           !.browser_pool_size = NarrowPoolSize ]
    /\ _proxies_cache = << >>
    /\ proxies = _proxies_cache
    /\ _proxy_index = 0
    /\ _proxy_usage_count = 0
    /\ proxyTrace = << >>
    /\ tracker = NewTracker
    /\ trackerCalls = 0
    /\ pageWrites = tracker.pages_scanned
    /\ threads = ExecutorThreads(scraper.urls)
    /\ browser_managers = << >>
    /\ held = << >>
    /\ closed = {}

\* without a proxy list browser_scrape_sync never enters get_next_proxy
NextBrowserQueue ==
    \/ \E i \in TaskSlots : O_Enter(i)
    \/ \E i \in TaskSlots : O_RateLimitDone(i)
    \/ \E i \in TaskSlots : O_BrowserStart(i)
    \/ \E i \in TaskSlots : O_Launch(i)
    \/ \E i \in TaskSlots : O_Navigate(i)
    \/ \E i \in TaskSlots : O_Extract(i)
    \/ \E i \in TaskSlots : O_BrowserDone(i)
    \/ \E i \in TaskSlots : O_BrowserResume(i)
    \/ O_Gather

\* The event loop runs a task that can go on, an executor thread that is free
\* picks queued work up, and every render returns or times out.
FairSpecBrowserQueue ==
    InitBrowserQueue /\ [][NextBrowserQueue]_vars /\ WF_vars(NextBrowserQueue)

(***************************************************************************)
(* Specification of the tracker.                                           *)
(***************************************************************************)
InitTracker ==
    /\ tracker \in ObservedTrackers
    /\ trackerCalls = 0
    /\ pageWrites = tracker.pages_scanned
    /\ _proxies_cache = << >>
    /\ _proxy_index = 0
    /\ _proxy_usage_count = 0
    /\ proxies = << >>
    /\ proxyTrace = << >>
    /\ threads = << >>
    /\ browser_managers = << >>
    /\ held = << >>
    /\ closed = {}
    /\ scraper = None

NextTracker ==
    \/ MarkHomepageScanned
    \/ MarkPageScanned
    \/ MarkInternalLinksChecked
    \/ MarkDataSourceChecked
    \/ AddEmail
    \/ MarkEmailsCleaned
    \/ SetNoEmailReason

SpecTracker == InitTracker /\ [][NextTracker]_vars

(***************************************************************************)
(* Properties of the tracker.                                              *)
(***************************************************************************)
HasAllPageEntries(t) ==
    \A page \in Range(REQUIRED_PAGES) : page \in DOMAIN t.pages_scanned

HasAllSourceEntries(t) ==
    \A source \in Range(REQUIRED_DATA_SOURCES) : source \in DOMAIN t.data_sources_checked

ResultsConsistent(t) ==
    /\ t.emails_found # {} => t.emails_cleaned
    /\ t.emails_found = {} => t.no_email_reason # None

MissingRequiredEntries(t) ==
    { page \in Range(REQUIRED_PAGES) : page \notin DOMAIN t.pages_scanned }
      \cup { source \in Range(REQUIRED_DATA_SOURCES) : source \notin DOMAIN t.data_sources_checked }

\* C3: get_completion_status returns COMPLETED if and only if every required
\* page has an entry, every required data source has an entry, and the email
\* results are consistent (found implies cleaned, none found implies a reason);
\* nothing else enters the verdict.
C3_CompletedIffEntriesAndConsistency ==
    (get_completion_status(tracker) = StatusComplete)
      <=> /\ HasAllPageEntries(tracker)
          /\ HasAllSourceEntries(tracker)
          /\ ResultsConsistent(tracker)

\* C4: whenever a required page or a required data source has no entry,
\* get_completion_status returns INCOMPLETE, whatever the emails found, the
\* cleaned flag and the other entries.
C4_MissingEntryIsIncomplete ==
    MissingRequiredEntries(tracker) # {}
      => get_completion_status(tracker) = StatusIncomplete

\* A job with emails found and cleaned, no failure, the homepage scanned and
\* exactly one required entry absent.
C4_Witness ==
    /\ trackerCalls > 0
    /\ Cardinality(MissingRequiredEntries(tracker)) = 1
    /\ tracker.emails_found # {}
    /\ tracker.emails_cleaned
    /\ tracker.failures = << >>
    /\ tracker.homepage_scanned
    /\ get_completion_status(tracker) = StatusIncomplete

(***************************************************************************)
(* Properties of the scrapers.                                             *)
(***************************************************************************)
\* is_social_media_url over the URLs a caller submits
DenylistedUrl == [ u \in Range(UrlPool) |-> is_social_media_url(u) ]

TaskDone(i) == scraper.tasks[i].pc = "done"

\* C1: a URL that matches the denylist ends as skipped with the policy
\* reason; no HTTP request and no browser render is ever issued for it, and
\* the only counter incremented for it is `skipped`.
C1_DenylistedUrlSkipped ==
    \A i \in TaskIds :
        DenylistedUrl[scraper.urls[i]] =>
            LET t == scraper.tasks[i] IN
            /\ t.http_requests = 0
            /\ t.browser_renders = 0
            /\ t.delays = 0
            /\ t.pc \in { "pending", "done" }
            /\ t.pc = "pending" => t.returned = << >> /\ t.counted = << >>
            /\ t.pc = "done" =>
                 /\ t.returned = << SkippedResult(scraper.urls[i], SocialMediaMessage) >>
                 /\ t.counted = << "skipped" >>
                 /\ scraper.stats["skipped"] >= 1

\* a denylisted URL written with capitals is done while a sibling URL of the
\* same batch has been fetched
C1_Witness ==
    \E i, j \in TaskIds :
        /\ DenylistedUrl[scraper.urls[i]]
        /\ scraper.urls[i] # StrLower(scraper.urls[i])
        /\ TaskDone(i)
        /\ scraper.tasks[i].returned[1].status = "skipped"
        /\ scraper.tasks[j].http_requests > 0

\* the cheap path of OptimizedScraper gave up on URL i: every attempt failed
CheapPathExhausted(i) == IsOptimized /\ scraper.tasks[i].status = "http_error"

\* C2 as stated: a URL whose cheap fetch failed on every attempt allowed by
\* retry_attempts is reported as failed.
C2_ExhaustedRetriesReportedFailed ==
    \A i \in TaskIds :
        CheapPathExhausted(i) /\ TaskDone(i) => scraper.tasks[i].returned[1].status = "failed"

\* C2 amended: such a URL got exactly retry_attempts requests (never one
\* more), is never an HTTP success, and is handed to the browser once; it is
\* failed exactly when that render returned nothing, and a browser success
\* otherwise.
C2_ExhaustedRetriesEscalate ==
    \A i \in TaskIds :
        CheapPathExhausted(i) =>
            LET t == scraper.tasks[i] IN
            /\ t.http_requests = scraper.retry_attempts
            /\ t.pc \in { "browser_queued", "browser_running", "loading", "loaded", "closing",
                        "browser_returned", "done" }
            /\ t.pc = "done" =>
                 /\ t.browser_renders = 1
                 /\ Len(t.rendered) = 1
                 /\ t.rendered[1] = None =>
                      /\ t.returned = << FailedResult(scraper.urls[i], None) >>
                      /\ t.counted = << "failed" >>
                 /\ t.rendered[1] # None =>
                      /\ t.returned = << DataResult(scraper.urls[i], "browser") >>
                      /\ t.counted = << "browser_success" >>

\* retry_attempts = 2, both requests failed (one backoff of 1 s between
\* them), and the URL ended as a browser success
C2_Witness ==
    \E i \in TaskIds :
        /\ CheapPathExhausted(i)
        /\ scraper.retry_attempts = 2
        /\ scraper.tasks[i].http_requests = 2
        /\ scraper.tasks[i].waits = << 1 >>
        /\ TaskDone(i)
        /\ scraper.tasks[i].returned[1].method = "browser"
        /\ scraper.tasks[i].returned[1].status = None

\* the entries of the verification record written for URL i
VerificationWrites(i) ==
    { k \in DOMAIN tracker.pages_scanned :
        tracker.pages_scanned[k].url \in { scraper.urls[i], "" } }

\* C10: every URL that reached a terminal state has exactly one outcome
\* record and exactly one write in the verification record for its page slot.
C10_OneOutcomeAndOneVerificationWrite ==
    \A i \in TaskIds :
        TaskDone(i) =>
            /\ Len(scraper.tasks[i].returned) = 1
            /\ Cardinality(VerificationWrites(i)) = 1

\* The state of the per-URL state machine that task i of scraper s is in.
PhaseOf(s, i) ==
    LET t == s.tasks[i] IN
    CASE t.pc = "pending" -> "Validating"
      [] t.pc = "rate_limit" -> IF s.force_browser THEN "EscalatingToBrowser" ELSE "TryingCheap"
      [] t.pc \in { "http", "backoff" } -> "TryingCheap"
      [] t.pc \in { "browser_queued", "browser_running", "loading", "loaded", "closing",
                  "browser_returned" } -> "EscalatingToBrowser"
      [] t.pc = "done" ->
           CASE t.counted = << "skipped" >>         -> "Skipped"
             [] t.counted = << "http_success" >>    -> "CheapSucceeded"
             [] t.counted = << "browser_success" >> -> "BrowserSucceeded"
             [] t.counted = << "failed" >>          -> "Failed"
             [] OTHER                               -> "Unknown"

\* the transitions the state machine declares
DeclaredTransition(s, p, q) ==
    \/ p = "Validating" /\ q = "Skipped"
    \/ p = "Validating" /\ q = "TryingCheap" /\ ~s.force_browser
    \/ p = "Validating" /\ q = "EscalatingToBrowser" /\ s.force_browser
    \/ p = "TryingCheap" /\ q \in { "CheapSucceeded", "EscalatingToBrowser" }
    \/ p = "EscalatingToBrowser" /\ q \in { "BrowserSucceeded", "Failed" }

Phases ==
    { "Validating", "TryingCheap", "EscalatingToBrowser",
      "Skipped", "CheapSucceeded", "BrowserSucceeded", "Failed" }

\* q is reached from p by one, two or three declared transitions
DeclaredPath(s, p, q) ==
    \/ DeclaredTransition(s, p, q)
    \/ \E m \in Phases : DeclaredTransition(s, p, m) /\ DeclaredTransition(s, m, q)
    \/ \E m, n \in Phases :
         DeclaredTransition(s, p, m) /\ DeclaredTransition(s, m, n) /\ DeclaredTransition(s, n, q)

\* the requests issued for task i agree with the state it is in
CallsAgreeWithPhase(s, i) ==
    LET t == s.tasks[i]
        p == PhaseOf(s, i)
    IN /\ s.force_browser => t.http_requests = 0
       /\ p \in { "Validating", "Skipped" } => t.http_requests = 0 /\ t.browser_renders = 0
       /\ p \in { "TryingCheap", "CheapSucceeded" } => t.browser_renders = 0
       /\ p = "CheapSucceeded" => t.http_requests >= 1
       /\ p \in { "BrowserSucceeded", "Failed" } => t.browser_renders = 1

\* C11: every step moves each URL along declared transitions only
\* (UltimateScraper runs a whole scrape_url call in one step, so along a path
\* of them), a forced-browser run issues no HTTP request, and a URL in a
\* terminal state is never touched again: no further request or render.
C11_OnlyDeclaredTransitions ==
    [][ \A i \in TaskIds :
          /\ \/ PhaseOf(scraper', i) = PhaseOf(scraper, i)
             \/ IsOptimized /\ DeclaredTransition(scraper, PhaseOf(scraper, i), PhaseOf(scraper', i))
             \/ IsUltimate /\ DeclaredPath(scraper, PhaseOf(scraper, i), PhaseOf(scraper', i))
          /\ CallsAgreeWithPhase(scraper', i)
          /\ TaskDone(i) => scraper'.tasks[i] = scraper.tasks[i] ]_vars

\* one batch in which a URL went Validating, TryingCheap, EscalatingToBrowser,
\* Failed, another ended CheapSucceeded and scrape_all has returned
C11_Witness ==
    /\ IsOptimized
    /\ scraper.finished
    /\ \E i, j \in TaskIds :
         /\ PhaseOf(scraper, i) = "Failed"
         /\ scraper.tasks[i].http_requests >= 1
         /\ scraper.tasks[i].browser_renders = 1
         /\ PhaseOf(scraper, j) = "CheapSucceeded"

\* the backoff sleeps the cheap path owes for the attempts in `log`: 2^k
\* seconds after a timeout or exception on 0-based attempt k, unless k is the
\* final attempt
ExpectedWaits(log, retry_attempts) ==
    LET F[k \in 0..Len(log)] ==
          IF k = 0 THEN << >>
          ELSE IF log[k] = "transient" /\ k < retry_attempts
               THEN Append(F[k - 1], 2 ^ (k - 1))
               ELSE F[k - 1]
    IN F[Len(log)]

\* C12: the cheap path of OptimizedScraper issues at most retry_attempts
\* requests per URL; a timeout or exception on 0-based attempt k is followed
\* by a wait of 2^k seconds unless k is the final attempt, which is followed
\* by none; a 200 response is the last request of the URL.
C12_BoundedAttemptsWithBackoff ==
    IsOptimized =>
      \A i \in TaskIds :
        LET t == scraper.tasks[i]
            n == Len(t.attempts)
        IN /\ t.http_requests = n
           /\ n <= scraper.retry_attempts
           /\ t.waits = ExpectedWaits(t.attempts, scraper.retry_attempts)
           /\ \A k \in 1..n : t.attempts[k] = "ok" => k = n /\ t.pc \notin { "http", "backoff" }
           /\ t.pc = "backoff" => t.attempts[n] = "transient" /\ n < scraper.retry_attempts
           /\ t.pc = "http" => n = t.attempt /\ n < scraper.retry_attempts

\* retry_attempts = 4 and every attempt timed out or raised: the waits after
\* attempts 0, 1 and 2 were 1 s, 2 s and 4 s, the fourth attempt was followed
\* by none and the cheap path ended
C12_Witness ==
    /\ IsOptimized
    /\ scraper.retry_attempts = 4
    /\ \E i \in TaskIds :
         /\ scraper.tasks[i].attempts = << "transient", "transient", "transient", "transient" >>
         /\ scraper.tasks[i].http_requests = 4
         /\ scraper.tasks[i].waits = << 1, 2, 4 >>
         /\ scraper.tasks[i].pc = "browser_queued"

\* the document holds one of the framework markers the scraper lists
HasFrameworkMarker(html) ==
    \E k \in DOMAIN js_indicators : StrContains(html.raw, js_indicators[k])

\* C13: after a cheap fetch that read a document, a document with a known
\* framework marker or with fewer than 200 characters of visible text is
\* never an HTTP success and goes to the browser; a document with no marker
\* and at least 200 characters is an HTTP success with no browser render.
C13_EscalationDecision ==
    \A i \in TaskIds :
        LET t == scraper.tasks[i] IN
        t.content # << >> =>
            IF HasFrameworkMarker(t.content[1]) \/ t.content[1].text_len < MIN_TEXT_LENGTH
            THEN /\ PhaseOf(scraper, i) \in { "EscalatingToBrowser", "BrowserSucceeded", "Failed" }
                 /\ t.status = "needs_browser"
            ELSE /\ PhaseOf(scraper, i) = "CheapSucceeded"
                 /\ t.browser_renders = 0

\* C14 as stated: on the browser path one navigation attempt is made per
\* URL, with no retry and no backoff wait.
C14_SingleNavigationAttempt ==
    \A i \in TaskIds :
        scraper.tasks[i].navigations <= 1 /\ scraper.tasks[i].nav_waits = << >>

\* C14 amended: a URL gets at most one browser run (one launch, no retry of
\* the render by scrape_url), and inside it load_page makes up to max_retries
\* navigation attempts, sleeping 2^attempt seconds (attempt counted from 1)
\* after every failed attempt but the last (while load_page is between two
\* attempts every attempt made so far has failed and been followed by its
\* sleep).
C14_OneRunWithNavigationRetries ==
    \A i \in TaskIds :
        LET t == scraper.tasks[i]
            slept == IF t.pc = "loading" THEN t.navigations ELSE t.navigations - 1
        IN
        /\ t.browser_renders <= 1
        /\ t.launches <= 1
        /\ t.launches = 1 => t.browser_renders = 1
        /\ t.navigations <= max_retries
        /\ t.pc = "loading" => t.navigations < max_retries
        /\ t.nav_waits = [attempt \in 1..slept |-> 2 ^ attempt]
        /\ Len(t.nav_waits) = 2 /\ t.rendered = << None >> => PhaseOf(scraper, i) = "Failed"

\* a URL failed after three navigation attempts with sleeps of 2 s and 4 s
C14_Witness ==
    \E i \in TaskIds :
        /\ scraper.tasks[i].browser_renders = 1
        /\ scraper.tasks[i].navigations = 3
        /\ scraper.tasks[i].nav_waits = << 2, 4 >>
        /\ scraper.tasks[i].counted = << "failed" >>

\* task i of scraper s can take its next step
CanProceed(s, i) ==
    IF s.variant = "ultimate" THEN s.next_url = i
    ELSE CASE s.tasks[i].pc = "pending"        -> s.permits > 0
           [] s.tasks[i].pc = "browser_queued" -> s.busy_workers < s.browser_pool_size
           [] s.tasks[i].pc = "done"           -> FALSE
           [] OTHER                            -> TRUE

\* the batch of scraper s has not been cut short
BatchGoesOn(s) ==
    /\ (\E j \in TaskIds : s.tasks[j].pc # "done") =>
          ~s.finished /\ \E j \in TaskIds : CanProceed(s, j)
    /\ s.finished => \A j \in TaskIds : s.tasks[j].pc = "done" /\ Len(s.tasks[j].returned) = 1

\* C15: a URL that fails does not stop the batch or touch its siblings: the
\* step in which a URL gets its outcome (failed included) changes no other
\* URL's task, a finished task never changes, after every step some
\* unfinished URL can go on, and scrape_all returns only when every URL has
\* its one outcome.
C15_FailureStaysLocal ==
    [][ /\ BatchGoesOn(scraper')
        /\ \A i \in TaskIds :
             /\ TaskDone(i) => scraper'.tasks[i] = scraper.tasks[i]
             /\ scraper'.tasks[i] # scraper.tasks[i] =>
                  \A j \in TaskIds \ { i } : scraper'.tasks[j] = scraper.tasks[j] ]_vars

\* scrape_all has returned; one URL failed because its browser could not be
\* launched, its sibling was scraped by the browser
C15_Witness ==
    /\ scraper.finished
    /\ \E i, j \in TaskIds :
         /\ scraper.tasks[i].counted = << "failed" >>
         /\ scraper.tasks[i].launches = 1
         /\ scraper.tasks[i].navigations = 0
         /\ scraper.tasks[j].counted = << "browser_success" >>

\* the URLs inside `async with self.rate_limiter`: sleeping for the rate
\* limit, fetching, backing off, or waiting for or running the browser
InScrapeUrl ==
    { i \in TaskIds :
        scraper.tasks[i].pc \in { "rate_limit", "http", "backoff",
                                  "browser_queued", "browser_running", "loading",
                                  "loaded", "closing", "browser_returned" } }

\* C16: in OptimizedScraper at most max_concurrent URLs are inside scrape_url
\* at any moment, and every URL that left it, by whatever exit, gave its slot
\* back: the free slots are exactly max_concurrent less the URLs inside.
C16_SlotsBoundedAndReleased ==
    IsOptimized =>
      /\ Cardinality(InScrapeUrl) <= scraper.max_concurrent
      /\ scraper.permits = scraper.max_concurrent - Cardinality(InScrapeUrl)
      /\ scraper.permits >= 0

\* every slot is taken, one URL is in the browser and a third URL waits
C16_Witness ==
    /\ IsOptimized
    /\ scraper.permits = 0
    /\ Cardinality(InScrapeUrl) = scraper.max_concurrent
    /\ \E i \in TaskIds : scraper.tasks[i].pc = "browser_running"
    /\ \E j \in TaskIds : scraper.tasks[j].pc = "pending"

\* C17: every cheap-fetch attempt of a URL, retries included, comes after a
\* rate-limit sleep of its own: a URL never has more requests than sleeps.
C17_DelayBeforeEveryAttempt ==
    IsOptimized =>
      \A i \in TaskIds : scraper.tasks[i].http_requests <= scraper.tasks[i].delays

\* C18: every browser launched for a URL has been closed, once, when the URL
\* is in its terminal state, whether the run gave data, the page did not
\* load, or something raised; no browser is closed that was not launched, a
\* browser is open only while its run is between launch and the finally
\* clause, and none of these browsers is ever put in the idle pool.
C18_LaunchedBrowserClosedOnce ==
    /\ browser_managers = << >>
    /\ \A i \in TaskIds :
         LET t == scraper.tasks[i] IN
         /\ t.closes <= t.launches
         /\ t.closes < t.launches => t.pc \in { "loading", "loaded", "closing" }
         /\ TaskDone(i) => t.closes = t.launches
         /\ TaskDone(i) /\ t.browser_renders = 1 => t.launches = 1 /\ t.closes = 1

\* a URL whose page loaded at once and whose extraction raised: failed, one
\* launch, one close
C18_Witness ==
    \E i \in TaskIds :
        /\ TaskDone(i)
        /\ scraper.tasks[i].launches = 1
        /\ scraper.tasks[i].navigations = 1
        /\ scraper.tasks[i].rendered = << None >>
        /\ scraper.tasks[i].closes = 1

\* the browsers launched so far in this scrape_all run
TotalLaunches ==
    LET F[k \in 0..Len(scraper.urls)] ==
          IF k = 0 THEN 0 ELSE F[k - 1] + scraper.tasks[k].launches
    IN F[Len(scraper.urls)]

\* C19: OptimizedScraper reuses its browsers: one scrape_all run launches at
\* most browser_pool_size of them, however many URLs take the browser path.
C19_LaunchesWithinPoolSize ==
    IsOptimized => TotalLaunches <= browser_pool_size

\* C20: registering a page again overwrites its entry: pages_scanned holds
\* one entry for each page name ever registered, no other, and the entry is
\* the result passed by the latest registration of that name.
C20_PageRegistrationOverwrites ==
    /\ DOMAIN tracker.pages_scanned = DOMAIN pageWrites
    /\ \A name \in DOMAIN pageWrites : tracker.pages_scanned[name] = pageWrites[name]

\* the "terms" page was registered as failed and later as completed: the
\* failure is still in the log, the entry is the second result
C20_Witness ==
    /\ trackerCalls >= 2
    /\ "terms" \in DOMAIN tracker.pages_scanned
    /\ tracker.pages_scanned["terms"].status = COMPLETED
    /\ \E k \in DOMAIN tracker.failures : tracker.failures[k].operation = "terms"

(***************************************************************************)
(* Further properties of the tracker.                                      *)
(***************************************************************************)
\* the names whose entry in dict d2 is new or differs from the one in d1
ChangedKeys(d1, d2) ==
    { k \in DOMAIN d2 : k \notin DOMAIN d1 \/ d2[k] # d1[k] }

\* C21 as stated: no mutator call changes or removes an entry that
\* pages_scanned or data_sources_checked already holds.
C21_EntriesNeverChange ==
    [][ /\ \A k \in DOMAIN tracker.pages_scanned :
             k \in DOMAIN tracker'.pages_scanned
               /\ tracker'.pages_scanned[k] = tracker.pages_scanned[k]
        /\ \A k \in DOMAIN tracker.data_sources_checked :
             k \in DOMAIN tracker'.data_sources_checked
               /\ tracker'.data_sources_checked[k] = tracker.data_sources_checked[k] ]_vars

\* C21 amended: no mutator call removes an entry, and a call changes at most
\* the one entry of the name it registers, which it creates or overwrites:
\* a step touches one page entry (then it holds the result just registered
\* and no source entry moves), or one source entry, or none.
C21_OnlyRegisteredEntryChanges ==
    [][ LET pages   == ChangedKeys(tracker.pages_scanned, tracker'.pages_scanned)
            sources == ChangedKeys(tracker.data_sources_checked, tracker'.data_sources_checked)
        IN /\ DOMAIN tracker.pages_scanned \subseteq DOMAIN tracker'.pages_scanned
           /\ DOMAIN tracker.data_sources_checked \subseteq DOMAIN tracker'.data_sources_checked
           /\ Cardinality(pages) + Cardinality(sources) <= 1
           /\ \A k \in pages : tracker'.pages_scanned[k] = pageWrites'[k]
           /\ \A k \in sources : tracker'.data_sources_checked[k].source_name = k ]_vars

\* the social_links source was registered as failed and after that as
\* completed: the failure is in the log, the entry is the later result
C21_Witness ==
    /\ "social_links" \in DOMAIN tracker.data_sources_checked
    /\ tracker.data_sources_checked["social_links"].status = COMPLETED
    /\ \E k \in DOMAIN tracker.failures :
         tracker.failures[k].operation = "data_source_social_links"
    /\ "rss_feed" \in DOMAIN tracker.data_sources_checked

\* the finalization step of the job has been performed on tracker t
Finalized(t) == t.emails_cleaned \/ t.no_email_reason # None

\* tracker t is not reported complete unless it has been finalized
NotDoneUnlessFinalized(t) ==
    (t.completed \/ get_completion_status(t) = StatusComplete) => Finalized(t)

\* C22: completion is never inferred from the maps: a tracker is reported
\* COMPLETED (or has `completed` set) only if mark_emails_cleaned or
\* set_no_email_reason has been performed, and a call that registers a page,
\* a data source or an email performs neither and does not set `completed`.
C22_CompletedOnlyAfterFinalization ==
    [][ /\ NotDoneUnlessFinalized(tracker)
        /\ NotDoneUnlessFinalized(tracker')
        /\ ( \/ tracker'.pages_scanned # tracker.pages_scanned
             \/ tracker'.data_sources_checked # tracker.data_sources_checked
             \/ tracker'.emails_found # tracker.emails_found
             \/ tracker'.failures # tracker.failures )
           => /\ tracker'.emails_cleaned = tracker.emails_cleaned
              /\ tracker'.no_email_reason = tracker.no_email_reason
              /\ tracker'.completed = tracker.completed ]_vars

\* every page and source is registered, an email was added and the emails
\* were cleaned: the tracker reports COMPLETED
C22_Witness ==
    /\ get_completion_status(tracker) = StatusComplete
    /\ tracker.emails_cleaned
    /\ tracker.emails_found # {}
    /\ trackerCalls >= 2

(***************************************************************************)
(* Page-level tasks of one job registering pages on one tracker from the   *)
(* worker threads.  The tracker takes no lock, so a registration is the    *)
(* sequence of its reads and writes of the shared record.                  *)
(***************************************************************************)
RegisterFrame == UNCHANGED << trackerCalls, proxyVars, poolVars, scraper >>

RegisterAt(w, pc) == threads.t[w].pc = pc

RegisterGoto(w, pc) == [threads EXCEPT !.t[w].pc = pc]

\* self.pages_scanned[page_name] = PageScanResult(...); `if not success:`
R_PageWrite(w) ==
    /\ RegisterAt(w, "page_write")
    /\ LET call == threads.t[w]
           result == PageScanResult(call.page_name, "/" \o call.page_name, call.inp.success,
                                    call.inp.failure_reason, call.inp.emails_found,
                                    call.inp.scan_time)
       IN /\ tracker' = [tracker EXCEPT !.pages_scanned = DictPut(@, call.page_name, result)]
          /\ pageWrites' = DictPut(pageWrites, call.page_name, result)
          /\ threads' = IF ~call.inp.success
                        THEN RegisterGoto(w, "failure_append")
                        ELSE RegisterGoto(w, "slow_check")
    /\ RegisterFrame

\* _track_failure: self.failures.append({...})
R_FailureAppend(w) ==
    /\ RegisterAt(w, "failure_append")
    /\ LET call == threads.t[w] IN
         tracker' = [tracker EXCEPT !.failures =
                        Append(@, [operation |-> call.page_name,
                                   reason    |-> ReasonValue(call.inp.failure_reason)])]
    /\ threads' = RegisterGoto(w, "count_read")
    /\ UNCHANGED pageWrites
    /\ RegisterFrame

\* self.repeated_failures[key] = self.repeated_failures.get(key, 0) + 1: the read
R_CountRead(w) ==
    /\ RegisterAt(w, "count_read")
    /\ LET call == threads.t[w]
           key  == call.page_name \o "_" \o ReasonValue(call.inp.failure_reason)
       IN threads' = [threads EXCEPT !.t[w].pc = "count_write",
                                     !.t[w].tmp = DictGet(tracker.repeated_failures, key, 0)]
    /\ UNCHANGED << tracker, pageWrites >>
    /\ RegisterFrame

\* ... and the write
R_CountWrite(w) ==
    /\ RegisterAt(w, "count_write")
    /\ LET call == threads.t[w]
           key  == call.page_name \o "_" \o ReasonValue(call.inp.failure_reason)
       IN tracker' = [tracker EXCEPT !.repeated_failures = DictPut(@, key, call.tmp + 1)]
    /\ threads' = RegisterGoto(w, "slow_check")
    /\ UNCHANGED pageWrites
    /\ RegisterFrame

\* `if scan_time > 10.0: self.slow_operations.append({...})`, then return
R_SlowCheck(w) ==
    /\ RegisterAt(w, "slow_check")
    /\ LET call == threads.t[w] IN
         tracker' = IF call.inp.scan_time > SLOW_SCAN_SECONDS
                    THEN [tracker EXCEPT !.slow_operations =
                            Append(@, [operation |-> "scan_" \o call.page_name,
                                       time      |-> call.inp.scan_time,
                                       url       |-> "/" \o call.page_name])]
                    ELSE tracker
    /\ threads' = RegisterGoto(w, "done")
    /\ UNCHANGED pageWrites
    /\ RegisterFrame

\* A new tracker, every worker about to call mark_page_scanned.
InitTrackerThreads ==
    /\ tracker = NewTracker
    /\ trackerCalls = 0
    /\ pageWrites = tracker.pages_scanned
    /\ threads \in [ t : [Workers -> [pc : {"page_write"}, page_name : PageNames,
                                      inp : PageScanInputs, tmp : {0}]] ]
    /\ _proxies_cache = << >>
    /\ _proxy_index = 0
    /\ _proxy_usage_count = 0
    /\ proxies = << >>
    /\ proxyTrace = << >>
    /\ browser_managers = << >>
    /\ held = << >>
    /\ closed = {}
    /\ scraper = None

NextTrackerThreads ==
    \E w \in Workers :
        \/ R_PageWrite(w)
        \/ R_FailureAppend(w)
        \/ R_CountRead(w)
        \/ R_CountWrite(w)
        \/ R_SlowCheck(w)

SpecTrackerThreads == InitTrackerThreads /\ [][NextTrackerThreads]_vars

RECURSIVE SumValues(_)
SumValues(d) ==
    IF DOMAIN d = {} THEN 0
    ELSE LET k == CHOOSE x \in DOMAIN d : TRUE
         IN d[k] + SumValues([x \in DOMAIN d \ {k} |-> d[x]])

AllRegistered == \A w \in Workers : threads.t[w].pc = "done"

FailedRegistrations == { w \in Workers : ~threads.t[w].inp.success }

\* C23: concurrent registrations are synchronized: once all of them have
\* returned, every registered page has its entry, each failed registration
\* has added one failure event and one to its (operation, reason) count, so
\* len(failures) equals the sum of the repeated-failure counts.
C23_RegistrationsSynchronized ==
    AllRegistered =>
        /\ \A w \in Workers : threads.t[w].page_name \in DOMAIN tracker.pages_scanned
        /\ Len(tracker.failures) = Cardinality(FailedRegistrations)
        /\ SumValues(tracker.repeated_failures) = Len(tracker.failures)

(***************************************************************************)
(* Further properties of the proxy rotation.                               *)
(***************************************************************************)
\* C24 as stated: in every state between get_next_proxy calls the use-count
\* since the last rotation is strictly less than _max_uses_per_proxy.
C24_CountBelowQuota == _proxy_usage_count < _max_uses_per_proxy

\* C24 amended: after a get_next_proxy call on a list of two or more
\* endpoints the use-count is at most _max_uses_per_proxy (the quota itself is
\* reached between calls, the rotation is made by the next call), and at
\* least one when the call returned an endpoint.
C24_CountWithinQuota ==
    \A i \in CallEvents(proxyTrace) :
        Len(proxyTrace[i].cache) >= 2
          => /\ proxyTrace[i].usage_count <= _max_uses_per_proxy
             /\ IsEndpoint(proxyTrace[i].result) => proxyTrace[i].usage_count >= 1

\* a call on a list of two endpoints has left the use-count at the quota
C24_Witness ==
    /\ proxyTrace # << >>
    /\ proxyTrace[Len(proxyTrace)].op = "call"
    /\ Len(proxyTrace[Len(proxyTrace)].cache) >= 2
    /\ IsEndpoint(proxyTrace[Len(proxyTrace)].result)
    /\ _proxy_usage_count = _max_uses_per_proxy

\* the step is a get_next_proxy call
IsCallStep ==
    /\ Len(proxyTrace') = Len(proxyTrace) + 1
    /\ proxyTrace'[Len(proxyTrace')].op = "call"

\* C25: on a list of n >= 2 endpoints a forced call returns the endpoint
\* right after the current one in list order (wrapping from the last to the
\* first) and restarts the use-count at one; a non-forced call below the quota
\* returns the current endpoint and adds one to the use-count.
C25_RotationInListOrder ==
    [][ LET n == Len(_proxies_cache)
            e == proxyTrace'[Len(proxyTrace')]
        IN (IsCallStep /\ n >= 2) =>
             /\ e.force_rotate =>
                  /\ _proxy_index < n
                  /\ e.result = _proxies_cache[((_proxy_index + 1) % n) + 1]
                  /\ _proxy_usage_count' = 1
             /\ (~e.force_rotate /\ _proxy_usage_count < _max_uses_per_proxy) =>
                  /\ _proxy_index < n
                  /\ e.result = _proxies_cache[_proxy_index + 1]
                  /\ _proxy_usage_count' = _proxy_usage_count + 1 ]_vars

\* C26: when no proxies are configured (the latest load_proxies call returned
\* an empty list, or none was made) a get_next_proxy call, forced or not,
\* returns None and leaves the rotation index and the use-count unchanged.
C26_NoneWithoutProxies ==
    [][ (IsCallStep /\ proxies = << >>) =>
          /\ proxyTrace'[Len(proxyTrace')].result = None
          /\ _proxy_index' = _proxy_index
          /\ _proxy_usage_count' = _proxy_usage_count ]_vars

(***************************************************************************)
(* Further properties of the browser pool.                                 *)
(***************************************************************************)
\* caller c returns the session it holds in this step
IsReturnStep(c) == held[c] # NoSession /\ held'[c] = NoSession

\* C27: return_browser_manager appends the session to the idle list when that
\* list holds fewer than browser_pool_size sessions and closes it otherwise,
\* never both and never neither; so the idle list never holds more than
\* browser_pool_size sessions.
C27_ReturnAppendsOrCloses ==
    [][ /\ \A c \in Callers : IsReturnStep(c) =>
             IF Len(browser_managers) < browser_pool_size
             THEN /\ browser_managers' = Append(browser_managers, held[c])
                  /\ closed' = closed
             ELSE /\ browser_managers' = browser_managers
                  /\ closed' = closed \cup { held[c] }
                  /\ held[c] \notin closed
        /\ Len(browser_managers) <= browser_pool_size
        /\ Len(browser_managers') <= browser_pool_size ]_vars

\* the idle list is full and a session has been closed, every caller having
\* returned what it held
C27_Witness ==
    /\ Len(browser_managers) = browser_pool_size
    /\ Cardinality(closed) = 1
    /\ \A c \in Callers : held[c] = NoSession
    /\ SessionsCreated = browser_pool_size + 1

(***************************************************************************)
(* Further properties of the scrapers.                                     *)
(***************************************************************************)
OutcomeCounters == { "skipped", "http_success", "browser_success", "failed" }

\* the number of tasks for which outcome counter n was incremented
CountedAs(n) ==
    Cardinality({ i \in TaskIds : scraper.tasks[i].counted = << n >> })

\* C28: after scrape_all has returned, skipped + http_success +
\* browser_success + failed equals the number of submitted URLs, every URL
\* having incremented exactly one of the four counters exactly once.
C28_OutcomeCountersSumToUrls ==
    scraper.finished =>
        /\ scraper.stats["skipped"] + scraper.stats["http_success"]
             + scraper.stats["browser_success"] + scraper.stats["failed"]
           = Len(scraper.urls)
        /\ \A i \in TaskIds :
             /\ Len(scraper.tasks[i].counted) = 1
             /\ scraper.tasks[i].counted[1] \in OutcomeCounters
        /\ \A n \in OutcomeCounters : scraper.stats[n] = CountedAs(n)

\* scrape_all of the optimized scraper has returned with a skipped URL, a
\* URL served over HTTP and a URL that went to the browser
C28_Witness ==
    /\ IsOptimized
    /\ scraper.finished
    /\ scraper.stats["skipped"] >= 1
    /\ scraper.stats["http_success"] >= 1
    /\ scraper.stats["browser_success"] + scraper.stats["failed"] >= 1

(***************************************************************************)
(* Diagnostics of the tracker.                                             *)
(***************************************************************************)
\* which entries exist and what the email fields hold
VerdictInputs(t) ==
    [ pages    |-> DOMAIN t.pages_scanned,
      homepage |-> t.homepage_scanned,
      sources  |-> DOMAIN t.data_sources_checked,
      emails   |-> t.emails_found,
      cleaned  |-> t.emails_cleaned,
      reason   |-> t.no_email_reason ]

\* C29: diagnostics never affect the verdict: two successive tracker states
\* that agree on which page and data-source entries exist and on the email
\* fields have the same get_completion_status, whatever their failure events,
\* failure counts, slow-operation records and recommendations.
C29_VerdictIgnoresDiagnostics ==
    [][ VerdictInputs(tracker') = VerdictInputs(tracker)
          => get_completion_status(tracker') = get_completion_status(tracker) ]_vars

Recommendations(t) == Range(get_diagnostics(t).recommendations)

\* C30: get_diagnostics recommends investigating an (operation, reason) key
\* exactly when that key's failure count is above 3, and recommends a longer
\* timeout whenever some recorded page scan (the homepage included) took more
\* than 10 seconds.
C30_RecommendationThresholds ==
    /\ \A key \in DOMAIN tracker.repeated_failures :
         LET count == tracker.repeated_failures[key] IN
         RepeatedFailureRecommendation(key, count) \in Recommendations(tracker)
           <=> count > 3
    /\ (\E page \in DOMAIN tracker.pages_scanned :
            tracker.pages_scanned[page].scan_time > SLOW_SCAN_SECONDS)
         => SlowOperationsRecommendation \in Recommendations(tracker)

(***************************************************************************)
(* A job whose report is generated: the mutators of the tracker together   *)
(* with generate_report, from a new tracker or from the tracker the whole  *)
(* example run leaves.                                                     *)
(***************************************************************************)
\* datetime.now() at the n-th call made on the tracker
ClockReading(n) == "T+" \o ToString(n)

GenerateReport ==
    /\ MoreCalls
    /\ tracker' = generate_report(tracker, ClockReading(trackerCalls)).tracker
    /\ trackerCalls' = trackerCalls + 1
    /\ UNCHANGED pageWrites
    /\ TrackerFrame

InitTrackerReport ==
    /\ tracker \in { NewTracker, TrackerAfter(Len(ExampleRun), 0) }
    /\ trackerCalls = 0
    /\ pageWrites = tracker.pages_scanned
    /\ _proxies_cache = << >>
    /\ _proxy_index = 0
    /\ _proxy_usage_count = 0
    /\ proxies = << >>
    /\ proxyTrace = << >>
    /\ threads = << >>
    /\ browser_managers = << >>
    /\ held = << >>
    /\ closed = {}
    /\ scraper = None

NextTrackerReport ==
    \/ MarkHomepageScanned
    \/ MarkPageScanned
    \/ MarkInternalLinksChecked
    \/ MarkDataSourceChecked
    \/ AddEmail
    \/ MarkEmailsCleaned
    \/ SetNoEmailReason
    \/ GenerateReport

SpecTrackerReport == InitTrackerReport /\ [][NextTrackerReport]_vars

ReportGenerated(t) == t.completion_time # None

\* C31: once generate_report has produced the report the record is
\* immutable: a later call changes neither pages_scanned,
\* data_sources_checked, emails_found, failures nor the verdict.
C31_RecordFrozenAfterReport ==
    [][ ReportGenerated(tracker) =>
          /\ tracker'.pages_scanned = tracker.pages_scanned
          /\ tracker'.data_sources_checked = tracker.data_sources_checked
          /\ tracker'.emails_found = tracker.emails_found
          /\ tracker'.failures = tracker.failures
          /\ get_completion_status(tracker') = get_completion_status(tracker) ]_vars

(***************************************************************************)
(* Registrations of names outside the required sets and repeated           *)
(* registrations.                                                          *)
(***************************************************************************)
\* every entry of dict d1 other than those of `names` is the same in d2
OthersKept(d1, d2, names) ==
    \A k \in DOMAIN d1 \ names : k \in DOMAIN d2 /\ d2[k] = d1[k]

\* C32: a mutator call never fails or aborts the job: every call returns
\* once, a page or data-source name outside the required sets or registered
\* before is recorded like any other, the entries of all other names stay as
\* they were, a failed registration appends one failure event, and the other
\* fields of the job (emails, finalization, `completed`) are left alone.
C32_RegistrationsSimplyRecorded ==
    [][ LET pages   == ChangedKeys(tracker.pages_scanned, tracker'.pages_scanned)
            sources == ChangedKeys(tracker.data_sources_checked, tracker'.data_sources_checked)
        IN /\ trackerCalls' = trackerCalls + 1
           /\ DOMAIN pageWrites' \subseteq DOMAIN tracker'.pages_scanned
           /\ OthersKept(tracker.pages_scanned, tracker'.pages_scanned, pages)
           /\ OthersKept(tracker.data_sources_checked, tracker'.data_sources_checked, sources)
           /\ Len(tracker'.failures) \in { Len(tracker.failures), Len(tracker.failures) + 1 }
           /\ SubSeq(tracker'.failures, 1, Len(tracker.failures)) = tracker.failures
           /\ (pages # {} \/ sources # {}) =>
                /\ tracker'.emails_found = tracker.emails_found
                /\ tracker'.emails_cleaned = tracker.emails_cleaned
                /\ tracker'.no_email_reason = tracker.no_email_reason
           /\ tracker'.completed = tracker.completed ]_vars

\* the page "pricing" (not a required page) was registered as failed and then
\* again as completed, and the source "rss_feed" (not a required source) was
\* registered
C32_Witness ==
    /\ "pricing" \in DOMAIN tracker.pages_scanned
    /\ tracker.pages_scanned["pricing"].status = COMPLETED
    /\ \E k \in DOMAIN tracker.failures : tracker.failures[k].operation = "pricing"
    /\ "rss_feed" \in DOMAIN tracker.data_sources_checked

(***************************************************************************)
(* Validation of the submitted URLs.                                       *)
(***************************************************************************)
StrEndsWith(s, suffix) ==
    Len(s) >= Len(suffix) /\ SubSeq(s, Len(s) - Len(suffix) + 1, Len(s)) = suffix

\* the text before the first "/" of s
RECURSIVE UpToSlash(_)
UpToSlash(s) ==
    IF s = "" \/ SubSeq(s, 1, 1) = "/" THEN ""
    ELSE SubSeq(s, 1, 1) \o UpToSlash(SubSeq(s, 2, Len(s)))

HasHttpScheme(url) == StrStartsWith(url, "http://") \/ StrStartsWith(url, "https://")

\* the host of an http(s) URL, in lower case
HostOf(url) ==
    StrLower(UpToSlash(IF StrStartsWith(url, "https://")
                       THEN SubSeq(url, 9, Len(url))
                       ELSE SubSeq(url, 8, Len(url))))

\* the host is a denylisted domain or a subdomain of one
HostDenylisted(host) ==
    \E i \in DOMAIN BLOCKED_DOMAINS :
        host = BLOCKED_DOMAINS[i] \/ StrEndsWith(host, "." \o BLOCKED_DOMAINS[i])

\* the URLs the validation has no ground to reject
Acceptable ==
    [ u \in Range(UrlPool) |->
        /\ HasHttpScheme(u)
        /\ StrContains(HostOf(u), ".")
        /\ ~HostDenylisted(HostOf(u)) ]

\* C33: a URL is rejected only if it is on a denylisted domain, lacks an
\* http(s) scheme or lacks a host with a dot: every other URL, a business
\* site whose name merely contains a denylisted string included, is not
\* skipped and goes on to be fetched.
C33_OnlyDenylistedOrMalformedRejected ==
    \A i \in TaskIds :
        (TaskDone(i) /\ Acceptable[scraper.urls[i]]) =>
            /\ scraper.tasks[i].counted # << "skipped" >>
            /\ scraper.tasks[i].http_requests + scraper.tasks[i].browser_renders >= 1

(***************************************************************************)
(* Termination of scrape_all.                                              *)
(***************************************************************************)
\* C34: scrape_all terminates with every URL in a terminal state; tasks that
\* hold a max_concurrent slot while they wait for one of the
\* browser_pool_size executor threads never deadlock.
C34_ScrapeAllTerminates ==
    <>( /\ scraper.finished
        /\ \A i \in TaskIds : TaskDone(i) /\ Len(scraper.tasks[i].returned) = 1 )

\* every executor thread is busy while another task, holding its slot, is
\* queued for one
C34_Witness ==
    /\ scraper.busy_workers = scraper.browser_pool_size
    /\ \E i \in TaskIds : scraper.tasks[i].pc = "browser_queued"
    /\ scraper.permits = scraper.max_concurrent - (scraper.browser_pool_size + 1)

(***************************************************************************)
(* scraper.main: one browser at a time, the URLs processed in a loop with  *)
(* the rotation test at the top of each iteration.  The state of a run is  *)
(* held in `scraper`: main's locals and the proxy each URL was served by.  *)
(***************************************************************************)
\* Bound on the number of URLs get_user_input returns.
NumMainUrls == 9

MainFrame == UNCHANGED << trackerVars, proxyTrace, threads, poolVars >>

\* main up to the loop: load_proxies(), reset_proxy_usage(), get_user_input(),
\* get_next_proxy() when proxies were loaded, launch_browser()
M_Start ==
    /\ scraper.variant = "main"
    /\ scraper.pc = "start"
    /\ LET l == load_proxies(_proxies_cache, scraper.file)
           p == IF l.returned # << >>
                THEN get_next_proxy(l.cache, _proxy_index, 0, FALSE)
                ELSE [result |-> None, index |-> _proxy_index, usage_count |-> 0]
       IN /\ _proxies_cache' = l.cache
          /\ proxies' = l.returned
          /\ _proxy_index' = p.index
          /\ _proxy_usage_count' = p.usage_count
          /\ scraper' = [ scraper EXCEPT !.pc = "loop",
                                         !.proxy_config = p.result,
                                         !.launches = @ + 1 ]
    /\ MainFrame

\* one iteration of `for idx, url in enumerate(urls)`: the rotation test
\* (close, get_next_proxy, relaunch), then scrape_single_url
M_ProcessUrl ==
    /\ scraper.variant = "main"
    /\ scraper.pc = "loop"
    /\ scraper.idx < scraper.num_urls
    /\ LET rotate == proxies # << >> /\ _proxy_usage_count >= _max_uses_per_proxy
           p == IF rotate
                THEN get_next_proxy(_proxies_cache, _proxy_index, _proxy_usage_count, FALSE)
                ELSE [result |-> scraper.proxy_config, index |-> _proxy_index,
                      usage_count |-> _proxy_usage_count]
       IN /\ _proxy_index' = p.index
          /\ _proxy_usage_count' = p.usage_count
          /\ \E result \in BOOLEAN :
               scraper' = [ scraper EXCEPT
                              !.proxy_config = p.result,
                              !.closes       = IF rotate THEN @ + 1 ELSE @,
                              !.launches     = IF rotate THEN @ + 1 ELSE @,
                              !.served       = Append(@, p.result),
                              !.idx          = @ + 1,
                              !.successful   = IF result THEN @ + 1 ELSE @,
                              !.failed       = IF result THEN @ ELSE @ + 1 ]
    /\ UNCHANGED << _proxies_cache, proxies >>
    /\ MainFrame

\* the loop is over: the summary is printed, the finally clause closes the browser
M_Finish ==
    /\ scraper.variant = "main"
    /\ scraper.pc = "loop"
    /\ scraper.idx = scraper.num_urls
    /\ scraper' = [ scraper EXCEPT !.pc = "done", !.closes = @ + 1 ]
    /\ UNCHANGED << _proxies_cache, proxies, _proxy_index, _proxy_usage_count >>
    /\ MainFrame

\* scraper.py has just been imported and main() called; proxies.txt is one of
\* ProxyFiles and the user will enter 1..NumMainUrls valid URLs.
InitMain ==
    /\ \E file \in ProxyFiles, n \in 1..NumMainUrls :
         scraper = [ variant |-> "main", pc |-> "start", file |-> file, num_urls |-> n,
                     proxy_config |-> None, launches |-> 0, closes |-> 0,
                     served |-> << >>, idx |-> 0, successful |-> 0, failed |-> 0 ]
    /\ _proxies_cache = << >>
    /\ _proxy_index = 0
    /\ _proxy_usage_count = 0
    /\ proxies = << >>
    /\ proxyTrace = << >>
    /\ tracker = NewTracker
    /\ trackerCalls = 0
    /\ pageWrites = tracker.pages_scanned
    /\ threads = << >>
    /\ browser_managers = << >>
    /\ held = << >>
    /\ closed = {}

NextMain ==
    \/ M_Start
    \/ M_ProcessUrl
    \/ M_Finish

SpecMain == InitMain /\ [][NextMain]_vars

\* C35: with two or more proxies loaded, main relaunches the browser on the
\* next proxy once the current one has served _max_uses_per_proxy URLs: no
\* proxy serves more than _max_uses_per_proxy consecutive URLs of a run.
C35_ProxyServesAtMostQuotaUrls ==
    Len(proxies) >= 2 =>
        \A k \in 1..(Len(scraper.served) - _max_uses_per_proxy) :
            \E j \in k..(k + _max_uses_per_proxy) : scraper.served[j] # scraper.served[k]

(***************************************************************************)
(* Proxies of the requests the scrapers send.                              *)
(***************************************************************************)
\* the requests task i sends in this step: cheap fetches and browser runs
RequestsSent(i) ==
    (scraper'.tasks[i].http_requests - scraper.tasks[i].http_requests)
      + (scraper'.tasks[i].launches - scraper.tasks[i].launches)

\* the proxies obtained from the rotator that the requests of task i in this
\* step go through: the one the executor thread of the task holds when its
\* browser runs (OptimizedScraper), or the ones get_next_proxy hands out in
\* the step itself (UltimateScraper, whose scrape_url is one step; each call
\* adds one to the use-count or restarts it at one)
ProxiesObtained(i) ==
    IF IsOptimized
    THEN IF /\ scraper'.tasks[i].launches > scraper.tasks[i].launches
            /\ threads.t[i].result \in Range(proxies)
         THEN 1 ELSE 0
    ELSE IF _proxy_usage_count' >= _proxy_usage_count
         THEN _proxy_usage_count' - _proxy_usage_count
         ELSE _proxy_usage_count'

\* C36: when a proxy list is configured every request sent to a target site,
\* the cheap HTTP fetch as well as the browser render, goes through a proxy
\* obtained from the rotator for it.
C36_EveryRequestThroughProxy ==
    [][ proxies # << >> =>
          \A i \in TaskIds : ProxiesObtained(i) >= RequestsSent(i) ]_vars

(***************************************************************************)
(* The verdict and the list of incomplete steps.                           *)
(***************************************************************************)
\* C37: in every reachable tracker state get_completion_status returns
\* COMPLETED exactly when get_incomplete_steps returns an empty list.
C37_CompletedIffNoIncompleteSteps ==
    (get_completion_status(tracker) = StatusComplete)
        <=> (get_incomplete_steps(tracker) = << >>)

(***************************************************************************)
(* The rotation index and the endpoint list.                               *)
(***************************************************************************)
\* C38: after any sequence of load_proxies, get_next_proxy and
\* reset_proxy_usage calls, whenever the proxy list is non-empty the rotation
\* index is a valid position in it, also after a reload with fewer endpoints.
C38_IndexWithinList ==
    _proxies_cache # << >> =>
        (0 <= _proxy_index /\ _proxy_index < Len(_proxies_cache))

(***************************************************************************)
(* The retry counter and the backoff waits.                                *)
(***************************************************************************)
\* the repeated cheap-fetch attempts of task i: the attempts made after its
\* first one, and the one the retry loop has gone on to (while the task is
\* in the loop every request made so far is followed by another attempt)
RepeatedAttempts(i) ==
    LET made == scraper.tasks[i].http_requests
    IN IF scraper.tasks[i].pc \in {"http", "backoff"} THEN made
       ELSE IF made > 1 THEN made - 1 ELSE 0

AllRepeatedAttempts ==
    LET RECURSIVE Sum(_)
        Sum(i) == IF i = 0 THEN 0 ELSE RepeatedAttempts(i) + Sum(i - 1)
    IN Sum(Len(scraper.urls))

\* C39: stats['retries'] equals the number of cheap-fetch attempts made after
\* the first attempt of each URL (a repeat counts from the moment the retry
\* loop goes on to it), and every such repeat is preceded by a backoff wait,
\* also a repeat that follows a non-200 HTTP status.
C39_RetriesCountRepeatsWithBackoff ==
    /\ scraper.stats["retries"] = AllRepeatedAttempts
    /\ \A i \in TaskIds :
         Len(scraper.tasks[i].waits) = RepeatedAttempts(i)

(***************************************************************************)
(* The homepage requirement.                                               *)
(***************************************************************************)
\* C40: the homepage requirement is satisfied exactly when pages_scanned has
\* a 'homepage' entry, whether the entry was recorded through
\* mark_page_scanned('homepage', ...) or through mark_homepage_scanned(...).
C40_HomepageCheckedIffRecorded ==
    LET checks == verify_website_scan_complete(tracker)
    IN /\ checks.target_pages_checked["homepage"] <=> ("homepage" \in DOMAIN tracker.pages_scanned)
       /\ checks.homepage_scanned <=> ("homepage" \in DOMAIN tracker.pages_scanned)

====
